---------------------------- MODULE Spec2Model ----------------------------
(***************************************************************************)
(* Model of the conversational slot-filling core of mamadbah2/farmer:      *)
(*   - anthropic.ConversationState and its Merge                           *)
(*     (pkg/clients/anthropic/anthropic.go),                               *)
(*   - whatsapp.SessionManager (GetSession / UpdateSession / ClearSession),*)
(*   - MetaWhatsAppService.handleInboundMessage, handleConversation,       *)
(*     saveDailyReport, executeCommand and sendReply                       *)
(*     (internal/service/whatsapp/service.go).                             *)
(*                                                                         *)
(* A Go pointer field (to int, float64, bool or string) is modelled as a   *)
(* sequence of length at most one: <<>> is nil and <<v>> points to v.      *)
(* A Go string field is a TLA+ string, "" being its zero value.            *)
(* float64 quantities are drawn from small naturals.                       *)
(***************************************************************************)
EXTENDS Integers, Sequences, FiniteSets, TLC

(***************************************************************************)
(* Bounds of the model.                                                    *)
(***************************************************************************)
\* total number of inbound messages handled in one behaviour
MaxTurns == 2
\* number of fields set in each of the two inputs of the Merge harness
MaxMergeFields == 1

Users == {"u1", "u2"}
Procs == {"p1", "p2"}

Nil == <<>>

(***************************************************************************)
(* anthropic.ConversationState.  anthropic.go declares the fields below    *)
(* except MortalityQty and MortalityBand; service.go reads and writes      *)
(* MortalityQty (int pointer) and MortalityBand (string) of that struct, so *)
(* the record carries both sets.                                           *)
(***************************************************************************)
PtrFields ==
    {"EggsBand1", "EggsBand2", "EggsBand3", "SalesQty",
     "MortalityBand1", "MortalityBand2", "MortalityBand3",
     "MortalityQty", "FeedReceived", "FeedQty",
     "SaleQty", "SalePrice", "SaleClient", "SalePaid",
     "ReceptionQty", "ReceptionPrice",
     "ExpenseCategory", "ExpenseQty", "ExpenseUnitPrice", "ExpenseNotes"}

StrFields == {"Notes", "MortalityBand"}

DataFields == PtrFields \cup StrFields

\* the zero value of a data field: nil for a pointer, "" for a string
Zero(f) == IF f \in StrFields THEN "" ELSE Nil

IsNull(s, f) == s[f] = Zero(f)

\* the zero value of the struct: ConversationState{}
ZeroState ==
    [Step |-> "", History |-> <<>>,
     EggsBand1 |-> Nil, EggsBand2 |-> Nil, EggsBand3 |-> Nil,
     SalesQty |-> Nil,
     MortalityBand1 |-> Nil, MortalityBand2 |-> Nil, MortalityBand3 |-> Nil,
     MortalityQty |-> Nil, MortalityBand |-> "",
     FeedReceived |-> Nil, FeedQty |-> Nil, Notes |-> "",
     SaleQty |-> Nil, SalePrice |-> Nil, SaleClient |-> Nil, SalePaid |-> Nil,
     ReceptionQty |-> Nil, ReceptionPrice |-> Nil,
     ExpenseCategory |-> Nil, ExpenseQty |-> Nil,
     ExpenseUnitPrice |-> Nil, ExpenseNotes |-> Nil]

\* anthropic.Message{Role, Content}
Message(role, content) == [Role |-> role, Content |-> content]

(***************************************************************************)
(* ConversationState.Merge (anthropic.go 65-131): s.Merge(newState).       *)
(* SalesQty has no branch in the code; MortalityQty and MortalityBand are  *)
(* not fields of the struct Merge is compiled against: all three keep the  *)
(* receiver's value.                                                       *)
(***************************************************************************)
\* Merge, had it kept the receiver's step when the argument has none and the
\* receiver's history when the argument's is shorter
Merge_GuardsProgress(s, newState) ==
    [newState EXCEPT
        !.Step = IF @ = "" THEN s.Step ELSE @,
        !.History = IF Len(@) < Len(s.History) THEN s.History ELSE @]

\* Merge, had it assigned every field of newState to the receiver
Merge_TakesIncoming(s, newState) == newState

Merge(s, newState) ==
    [s EXCEPT
        !.Step = newState.Step,
        !.History = newState.History,
        !.EggsBand1 = IF newState.EggsBand1 # Nil THEN newState.EggsBand1 ELSE @,
        !.EggsBand2 = IF newState.EggsBand2 # Nil THEN newState.EggsBand2 ELSE @,
        !.EggsBand3 = IF newState.EggsBand3 # Nil THEN newState.EggsBand3 ELSE @,
        !.MortalityBand1 = IF newState.MortalityBand1 # Nil THEN newState.MortalityBand1 ELSE @,
        !.MortalityBand2 = IF newState.MortalityBand2 # Nil THEN newState.MortalityBand2 ELSE @,
        !.MortalityBand3 = IF newState.MortalityBand3 # Nil THEN newState.MortalityBand3 ELSE @,
        !.FeedReceived = IF newState.FeedReceived # Nil THEN newState.FeedReceived ELSE @,
        !.FeedQty = IF newState.FeedQty # Nil THEN newState.FeedQty ELSE @,
        !.Notes = IF newState.Notes # "" THEN newState.Notes ELSE @,
        !.SaleQty = IF newState.SaleQty # Nil THEN newState.SaleQty ELSE @,
        !.SalePrice = IF newState.SalePrice # Nil THEN newState.SalePrice ELSE @,
        !.SaleClient = IF newState.SaleClient # Nil THEN newState.SaleClient ELSE @,
        !.SalePaid = IF newState.SalePaid # Nil THEN newState.SalePaid ELSE @,
        !.ReceptionQty = IF newState.ReceptionQty # Nil THEN newState.ReceptionQty ELSE @,
        !.ReceptionPrice = IF newState.ReceptionPrice # Nil THEN newState.ReceptionPrice ELSE @,
        !.ExpenseCategory = IF newState.ExpenseCategory # Nil THEN newState.ExpenseCategory ELSE @,
        !.ExpenseQty = IF newState.ExpenseQty # Nil THEN newState.ExpenseQty ELSE @,
        !.ExpenseUnitPrice = IF newState.ExpenseUnitPrice # Nil THEN newState.ExpenseUnitPrice ELSE @,
        !.ExpenseNotes = IF newState.ExpenseNotes # Nil THEN newState.ExpenseNotes ELSE @]

(***************************************************************************)
(* The safety-net merge written inline in handleConversation               *)
(* (service.go 335-358): newState keeps its own value unless it is null    *)
(* and currentState's is not, for seven fields only.                       *)
(***************************************************************************)
\* the inline merge, had it stored the extractor's answer as it came
InlineMerge_NoCarryOver(currentState, newState) == newState

\* the inline merge, had it kept a stored step COMPLETED
InlineMerge_StepForward(currentState, newState) ==
    [newState EXCEPT
        !.Step = IF currentState.Step = "COMPLETED" THEN "COMPLETED" ELSE @,
        !.EggsBand1 = IF currentState.EggsBand1 # Nil /\ @ = Nil THEN currentState.EggsBand1 ELSE @,
        !.EggsBand2 = IF currentState.EggsBand2 # Nil /\ @ = Nil THEN currentState.EggsBand2 ELSE @,
        !.EggsBand3 = IF currentState.EggsBand3 # Nil /\ @ = Nil THEN currentState.EggsBand3 ELSE @,
        !.MortalityQty = IF currentState.MortalityQty # Nil /\ @ = Nil THEN currentState.MortalityQty ELSE @,
        !.MortalityBand = IF currentState.MortalityBand # "" /\ @ = "" THEN currentState.MortalityBand ELSE @,
        !.FeedReceived = IF currentState.FeedReceived # Nil /\ @ = Nil THEN currentState.FeedReceived ELSE @,
        !.FeedQty = IF currentState.FeedQty # Nil /\ @ = Nil THEN currentState.FeedQty ELSE @]

InlineMerge(currentState, newState) ==
    [newState EXCEPT
        !.EggsBand1 = IF currentState.EggsBand1 # Nil /\ @ = Nil THEN currentState.EggsBand1 ELSE @,
        !.EggsBand2 = IF currentState.EggsBand2 # Nil /\ @ = Nil THEN currentState.EggsBand2 ELSE @,
        !.EggsBand3 = IF currentState.EggsBand3 # Nil /\ @ = Nil THEN currentState.EggsBand3 ELSE @,
        !.MortalityQty = IF currentState.MortalityQty # Nil /\ @ = Nil THEN currentState.MortalityQty ELSE @,
        !.MortalityBand = IF currentState.MortalityBand # "" /\ @ = "" THEN currentState.MortalityBand ELSE @,
        !.FeedReceived = IF currentState.FeedReceived # Nil /\ @ = Nil THEN currentState.FeedReceived ELSE @,
        !.FeedQty = IF currentState.FeedQty # Nil /\ @ = Nil THEN currentState.FeedQty ELSE @]

(***************************************************************************)
(* whatsapp.SessionManager: a map userID -> ConversationState guarded by   *)
(* one RWMutex, so each of the three calls is atomic.  A user without an   *)
(* entry maps to NoSession.                                                *)
(***************************************************************************)
NoSession == [Absent |-> TRUE]

NewSessionManager == [u \in Users |-> NoSession]

DefaultState == [ZeroState EXCEPT !.Step = "COLLECTING"]

\* GetSession, had it handed out a fresh state whatever is stored
GetSession_AlwaysFresh(sm, userID) == [ZeroState EXCEPT !.Step = "COLLECTING"]

GetSession(sm, userID) ==
    IF sm[userID] # NoSession THEN sm[userID] ELSE DefaultState

\* UpdateSession, had it kept an entry that exists already
UpdateSession_KeepsExisting(sm, userID, state) ==
    IF sm[userID] = [Absent |-> TRUE] THEN [sm EXCEPT ![userID] = state] ELSE sm

\* UpdateSession, had the map been keyed by nothing: one slot for every user
UpdateSession_OneSlot(sm, userID, state) == [u \in DOMAIN sm |-> state]

\* UpdateSession, had it refused to store the step COMPLETED
UpdateSession_NeverCompleted(sm, userID, state) ==
    [sm EXCEPT ![userID] =
        IF state.Step = "COMPLETED" THEN [state EXCEPT !.Step = "COLLECTING"]
        ELSE state]

UpdateSession(sm, userID, state) == [sm EXCEPT ![userID] = state]

\* ClearSession, had it left the entry in the map
ClearSession_Keeps(sm, userID) == sm

ClearSession(sm, userID) == [sm EXCEPT ![userID] = NoSession]

(***************************************************************************)
(* The extractor, anthropicClient.ProcessConversation (anthropic.go        *)
(* 171-365).  The HTTP call and the model's answer are external: the       *)
(* answer is drawn from AIStates (the parsed "updated_state") and          *)
(* AIReplies (the parsed "reply"), or the call fails in one of the ways    *)
(* the function returns an error: the Post fails (lines 313-315, for a     *)
(* transport failure or because the caller's context is cancelled or       *)
(* timed out), the API answers an error, the answer is empty or it does    *)
(* not parse.                                                              *)
(***************************************************************************)
AIErrors ==
    {"api_call", "context canceled", "api_error", "empty_response", "unmarshal"}

\* lines 173-174: promptState, the copy of the caller's state without its
\* history that is marshalled into the system prompt
PromptState(state) == [state EXCEPT !.History = <<>>]

\* success, had the history been rebuilt from promptState
ProcessConversationOK_FromPromptState(state, text, updatedState, aiReply) ==
    [updatedState EXCEPT
        !.History = Append(Append(PromptState(state).History,
                                  Message("user", text)),
                           Message("assistant", aiReply))]

\* success: lines 359-364, newState := aiResult.UpdatedState with the
\* history rebuilt from the caller's state, the input and the reply
ProcessConversationOK(state, text, updatedState, aiReply) ==
    [updatedState EXCEPT
        !.History = Append(Append(state.History, Message("user", text)),
                           Message("assistant", aiReply))]

\* failure: lines 313-321 and 356 return the caller's state and an error
ProcessConversationErr(state, e) == [state |-> state, err |-> e]

Step_COLLECTING == "COLLECTING"
Step_CONFIRMING == "CONFIRMING"
Step_COMPLETED == "COMPLETED"

\* the step values an answer may carry: the three of the prompt, "" when
\* the answer has no step, and a step the prompt does not name
Steps == {Step_COLLECTING, Step_CONFIRMING, Step_COMPLETED, "", "completed"}

\* the numbers an answer carries: zero (a value, not an absence) and a
\* positive count
Vals == {0, 1}

\* the value an answer gives field f when it fills it from number v
FieldVal(f, v) ==
    CASE f \in {"Notes"} -> "note" \o ToString(v)
      [] f = "MortalityBand" -> ToString(v)
      [] f = "FeedReceived" -> <<v > 0>>
      [] f \in {"SaleClient", "ExpenseCategory", "ExpenseNotes"} -> <<"s" \o ToString(v)>>
      [] OTHER -> <<v>>

\* the groups of fields one answer fills (the rest of its fields are null)
AIFieldGroups ==
    {{"EggsBand1", "EggsBand2", "EggsBand3"},
     {"MortalityQty", "MortalityBand"},
     {"FeedReceived", "FeedQty"},
     {"MortalityQty", "MortalityBand", "FeedReceived", "FeedQty"},
     {"EggsBand1", "EggsBand2", "EggsBand3", "MortalityQty", "MortalityBand",
      "FeedReceived", "FeedQty"},
     {"Notes"},
     {"SaleQty", "SalePrice", "SaleClient", "SalePaid"},
     {"ExpenseCategory", "ExpenseQty", "ExpenseUnitPrice", "ExpenseNotes"}}

Extraction(g, v, step) ==
    [f \in DOMAIN ZeroState |->
        IF f = "Step" THEN step
        ELSE IF f \in g THEN FieldVal(f, v)
        ELSE ZeroState[f]]

\* the answers: one group filled with step COLLECTING or COMPLETED, or no
\* field filled with any step
AIStates ==
    {Extraction(g, v, step) : g \in AIFieldGroups, v \in Vals,
                              step \in {Step_COLLECTING, Step_COMPLETED}}
    \cup {Extraction({}, 0, step) : step \in Steps}

AIReplies == {"Combien de morts ?"}

(***************************************************************************)
(* Reply texts of handleConversation (service.go 332, 368, 373).           *)
(***************************************************************************)
Apology == "Desole, une erreur technique est survenue. Veuillez reessayer."
SaveFailed == "Merci, mais j'ai eu un probleme pour sauvegarder les donnees. Veuillez contacter l'admin."
Confirmed == "Rapport journalier enregistre avec succes ! A demain."

(***************************************************************************)
(* saveDailyReport (service.go 380-476).  `fails` is the set of record     *)
(* kinds whose save call returns an error when it is invoked.  The result  *)
(* holds the save calls made, in order (the failing one last), and the     *)
(* error returned ("nil" for none).                                        *)
(***************************************************************************)
Deref(ptr, dflt) == IF ptr # Nil THEN ptr[1] ELSE dflt

EggRecord(state) ==
    LET b1 == Deref(state.EggsBand1, 0)
        b2 == Deref(state.EggsBand2, 0)
        b3 == Deref(state.EggsBand3, 0)
    IN  [kind |-> "eggs", Band1 |-> b1, Band2 |-> b2, Band3 |-> b3,
         Quantity |-> b1 + b2 + b3, Notes |-> state.Notes]

\* the mortality record, had the reason been saved as it came
MortalityRecord_NoMarker(state) ==
    [kind |-> "mortality", Quantity |-> state.MortalityQty[1],
     Reason |-> state.MortalityBand]

MortalityRecord(state) ==
    LET qty == state.MortalityQty[1]
        reason == state.MortalityBand
    IN  [kind |-> "mortality", Quantity |-> qty,
         Reason |-> IF qty = 0 /\ (reason = "" \/ reason = "0") THEN "RAS" ELSE reason]

FeedRecord(state) ==
    [kind |-> "feed", FeedKg |-> Deref(state.FeedQty, 0), Population |-> 0]

\* the save calls, had the egg record needed all three bands
PlannedSaves_AllBands(state) ==
    (IF state.EggsBand1 # Nil /\ state.EggsBand2 # Nil /\ state.EggsBand3 # Nil
        THEN <<EggRecord(state)>> ELSE <<>>)
    \o (IF state.MortalityQty # Nil /\ state.MortalityQty[1] >= 0
        THEN <<MortalityRecord(state)>> ELSE <<>>)
    \o (IF state.FeedReceived # Nil /\ state.FeedReceived[1]
        THEN <<FeedRecord(state)>> ELSE <<>>)

\* the save calls, had a feed quantity been enough for a feed record
PlannedSaves_FeedOnQuantity(state) ==
    (IF state.EggsBand1 # Nil \/ state.EggsBand2 # Nil \/ state.EggsBand3 # Nil
        THEN <<EggRecord(state)>> ELSE <<>>)
    \o (IF state.MortalityQty # Nil /\ state.MortalityQty[1] >= 0
        THEN <<MortalityRecord(state)>> ELSE <<>>)
    \o (IF (state.FeedReceived # Nil /\ state.FeedReceived[1]) \/ state.FeedQty # Nil
        THEN <<FeedRecord(state)>> ELSE <<>>)

\* the save calls of a dispatch none of whose saves fails, in code order
PlannedSaves(state) ==
    (IF state.EggsBand1 # Nil \/ state.EggsBand2 # Nil \/ state.EggsBand3 # Nil
        THEN <<EggRecord(state)>> ELSE <<>>)
    \o (IF state.MortalityQty # Nil /\ state.MortalityQty[1] >= 0
        THEN <<MortalityRecord(state)>> ELSE <<>>)
    \o (IF state.FeedReceived # Nil /\ state.FeedReceived[1]
        THEN <<FeedRecord(state)>> ELSE <<>>)

SaveKinds == {"eggs", "mortality", "feed"}

\* the error saveDailyReport wraps around a failed save (lines 417, 454, 471)
SaveErr(kind) ==
    IF kind = "feed" THEN "saving feed reception" ELSE "saving " \o kind

\* saveDailyReport, had it gone on to the later saves after a failed one
saveDailyReport_ContinuesAfterFailure(state, dispatcherSet, fails) ==
    LET plan == PlannedSaves(state)
        bad == {i \in 1..Len(plan) : plan[i].kind \in fails}
        firstBad == IF bad = {} THEN 0
                    ELSE CHOOSE i \in bad : \A j \in bad : i <= j
    IN  IF ~dispatcherSet
            THEN [calls |-> <<>>, err |-> "dispatcher not configured"]
        ELSE IF firstBad = 0
            THEN [calls |-> plan, err |-> "nil"]
        ELSE [calls |-> plan, err |-> SaveErr(plan[firstBad].kind)]

saveDailyReport(state, dispatcherSet, fails) ==
    LET plan == PlannedSaves(state)
        bad == {i \in 1..Len(plan) : plan[i].kind \in fails}
        firstBad == IF bad = {} THEN 0
                    ELSE CHOOSE i \in bad : \A j \in bad : i <= j
    IN  IF ~dispatcherSet
            THEN [calls |-> <<>>, err |-> "dispatcher not configured"]
        ELSE IF firstBad = 0
            THEN [calls |-> plan, err |-> "nil"]
        ELSE [calls |-> SubSeq(plan, 1, firstBad),
              err |-> SaveErr(plan[firstBad].kind)]


(***************************************************************************)
(* Inbound text.  A text is its leading-slash flag and its words (the      *)
(* first word without the slash); the empty text has no slash and no word. *)
(***************************************************************************)
Text(slash, words) == [slash |-> slash, words |-> words]

EmptyText == Text(FALSE, <<>>)

FreeTexts == {Text(FALSE, <<"120", "130", "110">>)}

CommandTexts == {Text(TRUE, <<"eggs", "120">>), Text(TRUE, <<"help">>)}

Texts == {EmptyText} \cup FreeTexts \cup CommandTexts

(***************************************************************************)
(* models.ParseCommand (farm.go 78-115) and commandReplies                 *)
(* (service.go 230-255).                                                   *)
(***************************************************************************)
CommandTypes == {"eggs", "feed", "mortality", "sales", "expenses"}

ParseCommand(text) ==
    IF text.words = <<>>
        THEN [Type |-> "unknown", Args |-> <<>>]
    ELSE [Type |-> IF Head(text.words) \in CommandTypes
                       THEN Head(text.words) ELSE "unknown",
          Args |-> Tail(text.words)]

commandReplies ==
    [t \in CommandTypes \cup {"unknown"} |->
        CASE t = "eggs" -> [Title |-> "Egg Collection", Message |-> "Please provide egg counts for all 3 bands, e.g. /eggs 120 130 110 (Band1 Band2 Band3)."]
          [] t = "feed" -> [Title |-> "Feed Usage", Message |-> "Share feed consumption with remaining inventory, e.g. /feed 6 bags remaining 20 bags."]
          [] t = "mortality" -> [Title |-> "Mortality Update", Message |-> "Report mortality and suspected causes, e.g. /mortality 3 heat stress."]
          [] t = "sales" -> [Title |-> "Sales Report", Message |-> "Capture livestock or egg sales, e.g. /sales 10 crates 250000."]
          [] t = "expenses" -> [Title |-> "Expense Logging", Message |-> "Record expenses with supplier name, e.g. /expenses medication 55000 vet-shop."]
          [] OTHER -> [Title |-> "Command Help", Message |-> "Unknown command. Supported: /eggs, /feed, /mortality, /sales, /expenses."]]


(***************************************************************************)
(* commands.Service.HandleCommand and its build*Record helpers             *)
(* (command_dispatcher.go 70-304).  strconv.Atoi succeeds exactly on the   *)
(* number words and ParseFloat on the float words.  `writeFails` tells     *)
(* whether the row write of the save returns an error.  The result holds   *)
(* the response (the formatted message cut down to "saved: " and the       *)
(* command type), the error ("nil" for none) and the save calls made.      *)
(***************************************************************************)
NumberWords == {"120", "130", "110", "3"}

ErrInvalidArguments == "invalid command arguments"
ErrUnsupportedCommand == "unsupported command"
ErrStorage == "write row failed"

\* the least number of arguments per command type (lines 197-304)
MinArgs(t) == IF t \in {"sales", "expenses"} THEN 2 ELSE 1

\* the words strconv.ParseFloat accepts: the number words and a decimal
FloatWords == NumberWords \cup {"2.5"}

\* the arguments parsed with strconv.Atoi and with strconv.ParseFloat, per
\* command type (lines 202, 219, 240, 258-263, 294)
IntArgs(t) == IF t \in {"eggs", "mortality", "sales"} THEN {1} ELSE {}

FloatArgs(t) ==
    IF t \in {"feed", "expenses"} THEN {1} ELSE IF t = "sales" THEN {2} ELSE {}

\* the builders, had they checked the number of arguments only
buildRecord_LengthOnly(cmd) ==
    IF Len(cmd.Args) < MinArgs(cmd.Type)
        THEN [err |-> "invalid command arguments", record |-> [kind |-> cmd.Type]]
    ELSE [err |-> "nil", record |-> [kind |-> cmd.Type, Args |-> cmd.Args]]

buildRecord(cmd) ==
    IF Len(cmd.Args) < MinArgs(cmd.Type)
          \/ (\E i \in IntArgs(cmd.Type) : cmd.Args[i] \notin NumberWords)
          \/ (\E j \in FloatArgs(cmd.Type) : cmd.Args[j] \notin FloatWords)
        THEN [err |-> ErrInvalidArguments, record |-> [kind |-> cmd.Type]]
    ELSE [err |-> "nil", record |-> [kind |-> cmd.Type, Args |-> cmd.Args]]

HandleCommand(cmd, writeFails) ==
    IF cmd.Type \notin CommandTypes
        THEN [response |-> "", err |-> ErrUnsupportedCommand, calls |-> <<>>]
    ELSE LET built == buildRecord(cmd)
         IN  IF built.err # "nil"
                 THEN [response |-> "", err |-> built.err, calls |-> <<>>]
             ELSE IF writeFails
                 THEN [response |-> "", err |-> ErrStorage, calls |-> <<built.record>>]
             ELSE [response |-> "saved: " \o cmd.Type, err |-> "nil",
                   calls |-> <<built.record>>]

(***************************************************************************)
(* executeCommand (service.go 478-517): the reply sent and the save calls  *)
(* made for a parsed command.                                              *)
(***************************************************************************)
executeCommand(cmd, dispatcherSet, writeFails) ==
    LET cr == commandReplies[cmd.Type]
    IN  IF ~dispatcherSet
            THEN [body |-> cr.Title \o "\n" \o cr.Message, calls |-> <<>>]
        ELSE LET res == HandleCommand(cmd, writeFails)
             IN  IF res.err = ErrInvalidArguments
                     THEN [body |-> "Could not parse your " \o cmd.Type \o " update.\n" \o cr.Message,
                           calls |-> res.calls]
                 ELSE IF res.err = ErrUnsupportedCommand
                     THEN [body |-> cr.Title \o "\n" \o cr.Message, calls |-> res.calls]
                 ELSE IF res.err # "nil"
                     THEN [body |-> "We hit a technical issue storing your update. Please retry shortly.",
                           calls |-> res.calls]
                 ELSE [body |-> res.response, calls |-> res.calls]

(***************************************************************************)
(* State.                                                                  *)
(*   sessions      SessionManager.sessions                                 *)
(*   aiClient      whether MetaWhatsAppService.aiClient is non-nil         *)
(*   dispatcher    whether MetaWhatsAppService.dispatcher is non-nil       *)
(*   pc            where each in-flight handleConversation call stands:    *)
(*                 "idle" (no call), "ai" (GetSession done, waiting for    *)
(*                 ProcessConversation), "save" (UpdateSession done,       *)
(*                 saveDailyReport next), "clear" (saves done,             *)
(*                 ClearSession next)                                      *)
(*   userID, input, currentState, newState, reply                          *)
(*                 the locals of each call (newState after the merge)      *)
(*   aiState       the state ProcessConversation returned to each call,    *)
(*                 before the merge and without the rebuilt history        *)
(*   saveCalls, saveErr                                                    *)
(*                 the save calls each call's saveDailyReport made and     *)
(*                 the error it returned                                   *)
(*   turns         inbound messages received so far                        *)
(*   last          what the most recently finished handleInboundMessage    *)
(*                 did: its user, the path taken, the text sent with       *)
(*                 SendTextMessage, the number of sends, the error         *)
(*                 returned, the save calls made, the error of             *)
(*                 saveDailyReport, the extractor's answer, and whether    *)
(*                 the extractor call or a save call failed because the    *)
(*                 context was cancelled                                   *)
(*   savedSinceClear                                                       *)
(*                 per user and record kind, the successful conversational *)
(*                 saves since the user's session was last cleared         *)
(*   prev, incoming, merged, mstage                                        *)
(*                 the Merge harness: two inputs and the receiver after    *)
(*                 prev.Merge(incoming)                                    *)
(*   op            the harness of single calls: the last method called     *)
(*                 (on the session store, VerifyWebhookToken or            *)
(*                 HandleCommand), its user, its argument, its result and  *)
(*                 the store before the call                               *)
(*   responseText, sanitized, aiResult, pstage                             *)
(*                 the parse harness: the extractor's payload as a         *)
(*                 sequence of characters, what sanitizeJSON makes of it,  *)
(*                 and what the parse of ProcessConversation returns       *)
(*   callState, returned                                                   *)
(*                 the state ProcessConversation was called with and the   *)
(*                 state, reply and error it returned                      *)
(*   role, systemPrompt                                                    *)
(*                 the role ProcessConversation was called with and the    *)
(*                 system prompt it built ("none" before it is built)      *)
(***************************************************************************)
VARIABLES sessions, aiClient, dispatcher, pc, userID, input, currentState,
          aiState, newState, reply, saveCalls, saveErr, turns, last,
          savedSinceClear,
          prev, incoming, merged, mstage,
          op,
          responseText, sanitized, aiResult, pstage, callState, returned,
          role, systemPrompt

mvars == <<prev, incoming, merged, mstage>>

hvars == <<op>>

pvars == <<responseText, sanitized, aiResult, pstage, callState, returned,
           role, systemPrompt>>

svars == <<sessions, aiClient, dispatcher, pc, userID, input, currentState,
           aiState, newState, reply, saveCalls, saveErr, turns, last,
           savedSinceClear>>

vars == <<svars, mvars, hvars, pvars>>

NoTurn ==
    [userID |-> "", path |-> "none", body |-> "", sends |-> 0,
     err |-> "nil", calls |-> <<>>, dispatchErr |-> "nil",
     answer |-> ZeroState, cancelled |-> FALSE]

\* what a finished call leaves in `last`; sendReply (service.go 532-542)
\* returns the error of SendTextMessage
Finished(u, path, body, sendErr, calls, dispatchErr, answer) ==
    [userID |-> u, path |-> path, body |-> body, sends |-> 1,
     err |-> IF sendErr THEN "send failed" ELSE "nil", calls |-> calls,
     dispatchErr |-> dispatchErr, answer |-> answer, cancelled |-> FALSE]

NoCounts == [k \in SaveKinds |-> 0]

MergeIdle ==
    /\ prev = ZeroState
    /\ incoming = ZeroState
    /\ merged = ZeroState
    /\ mstage = "off"

NoOp ==
    [kind |-> "none", user |-> "", arg |-> ZeroState, result |-> ZeroState,
     before |-> NewSessionManager]

\* the result of a parse that has not run
NoResult == [err |-> "none", UpdatedState |-> <<>>, Reply |-> <<>>]

\* the return of a ProcessConversation call that has not returned
NoReturn == [state |-> ZeroState, reply |-> <<>>, err |-> "none"]

ParseIdle ==
    /\ responseText = <<>>
    /\ sanitized = <<>>
    /\ aiResult = NoResult
    /\ pstage = "off"
    /\ callState = ZeroState
    /\ returned = NoReturn
    /\ role = ""
    /\ systemPrompt = "none"

HarnessIdle == op = NoOp /\ ParseIdle

Init ==
    /\ sessions = NewSessionManager
    /\ aiClient \in BOOLEAN
    /\ dispatcher \in BOOLEAN
    /\ pc = [p \in Procs |-> "idle"]
    /\ userID = [p \in Procs |-> ""]
    /\ input = [p \in Procs |-> EmptyText]
    /\ currentState = [p \in Procs |-> ZeroState]
    /\ aiState = [p \in Procs |-> ZeroState]
    /\ newState = [p \in Procs |-> ZeroState]
    /\ reply = [p \in Procs |-> ""]
    /\ saveCalls = [p \in Procs |-> <<>>]
    /\ saveErr = [p \in Procs |-> "nil"]
    /\ turns = 0
    /\ last = NoTurn
    /\ savedSinceClear = [u \in Users |-> NoCounts]
    /\ MergeIdle
    /\ HarnessIdle

\* the locals of a call that has returned
Return(p) ==
    /\ pc' = [pc EXCEPT ![p] = "idle"]
    /\ userID' = [userID EXCEPT ![p] = ""]
    /\ input' = [input EXCEPT ![p] = EmptyText]
    /\ currentState' = [currentState EXCEPT ![p] = ZeroState]
    /\ aiState' = [aiState EXCEPT ![p] = ZeroState]
    /\ newState' = [newState EXCEPT ![p] = ZeroState]
    /\ reply' = [reply EXCEPT ![p] = ""]
    /\ saveCalls' = [saveCalls EXCEPT ![p] = <<>>]
    /\ saveErr' = [saveErr EXCEPT ![p] = "nil"]

(***************************************************************************)
(* handleInboundMessage (service.go 302-322).                              *)
(***************************************************************************)
\* line 304: a message without text returns an error and sends nothing
ReceiveEmpty(p) ==
    /\ pc[p] = "idle"
    /\ turns < MaxTurns
    /\ \E u \in Users :
          last' = [NoTurn EXCEPT !.userID = u, !.path = "empty",
                                 !.err = "empty message body"]
    /\ turns' = turns + 1
    /\ UNCHANGED <<sessions, aiClient, dispatcher, pc, userID, input,
                   currentState, aiState, newState, reply, saveCalls, saveErr,
                   savedSinceClear, mvars, hvars, pvars>>

\* ReceiveCommand, had a command reset the sender's conversation
ReceiveCommand_ClearsSession(p) ==
    /\ pc[p] = "idle"
    /\ turns < MaxTurns
    /\ \E u \in Users, text \in Texts \ {EmptyText}, writeFails, sendErr \in BOOLEAN :
          /\ text.slash \/ ~aiClient
          /\ sessions' = ClearSession(sessions, u)
          /\ LET res == executeCommand(ParseCommand(text), dispatcher, writeFails)
             IN  last' = Finished(u, "command", res.body, sendErr, res.calls,
                                  "nil", ZeroState)
    /\ turns' = turns + 1
    /\ UNCHANGED <<aiClient, dispatcher, pc, userID, input,
                   currentState, aiState, newState, reply, saveCalls, saveErr,
                   savedSinceClear, mvars, hvars, pvars>>

\* lines 309-312 and 320-321: a slash text, or any text without an AI
\* client, goes to executeCommand
ReceiveCommand(p) ==
    /\ pc[p] = "idle"
    /\ turns < MaxTurns
    /\ \E u \in Users, text \in Texts \ {EmptyText}, writeFails, sendErr \in BOOLEAN :
          /\ text.slash \/ ~aiClient
          /\ LET res == executeCommand(ParseCommand(text), dispatcher, writeFails)
             IN  last' = Finished(u, "command", res.body, sendErr, res.calls,
                                  "nil", ZeroState)
    /\ turns' = turns + 1
    /\ UNCHANGED <<sessions, aiClient, dispatcher, pc, userID, input,
                   currentState, aiState, newState, reply, saveCalls, saveErr,
                   savedSinceClear, mvars, hvars, pvars>>

(***************************************************************************)
(* handleConversation (service.go 324-378), one action per stretch of the  *)
(* call between two blocking calls or session-store calls.                 *)
(***************************************************************************)
\* lines 315-316 and 326: GetSession, then the extractor call is in flight
StartConversation(p, u, text) ==
    /\ pc[p] = "idle"
    /\ turns < MaxTurns
    /\ text # EmptyText
    /\ ~text.slash
    /\ aiClient
    /\ pc' = [pc EXCEPT ![p] = "ai"]
    /\ userID' = [userID EXCEPT ![p] = u]
    /\ input' = [input EXCEPT ![p] = text]
    /\ currentState' = [currentState EXCEPT ![p] = GetSession(sessions, u)]
    /\ turns' = turns + 1
    /\ UNCHANGED <<sessions, aiClient, dispatcher, aiState, newState, reply,
                   saveCalls, saveErr, last, savedSinceClear, mvars, hvars, pvars>>

\* ExtractFail, had it stored the state it read before replying
ExtractFail_Stores(p) ==
    /\ pc[p] = "ai"
    /\ \E e \in AIErrors, sendErr \in BOOLEAN :
          /\ ProcessConversationErr(currentState[p], e).err # "nil"
          /\ last' = [Finished(userID[p], "ai_error", Apology, sendErr, <<>>,
                               "nil", ZeroState)
                          EXCEPT !.cancelled = (e = "context canceled")]
    /\ sessions' = UpdateSession(sessions, userID[p], currentState[p])
    /\ Return(p)
    /\ UNCHANGED <<aiClient, dispatcher, turns, savedSinceClear, mvars, hvars, pvars>>

\* lines 329-333: the extractor returned an error
ExtractFail(p) ==
    /\ pc[p] = "ai"
    /\ \E e \in AIErrors, sendErr \in BOOLEAN :
          /\ ProcessConversationErr(currentState[p], e).err # "nil"
          /\ last' = [Finished(userID[p], "ai_error", Apology, sendErr, <<>>,
                               "nil", ZeroState)
                          EXCEPT !.cancelled = (e = "context canceled")]
    /\ Return(p)
    /\ UNCHANGED <<sessions, aiClient, dispatcher, turns, savedSinceClear, mvars, hvars, pvars>>

\* ExtractOK, had it merged the answer into the session stored at the time
\* of the write instead of the state read before the extractor call
ExtractOK_RereadsSession(p) ==
    /\ pc[p] = "ai"
    /\ \E st \in AIStates, r \in AIReplies, sendErr \in BOOLEAN :
          LET stored == GetSession(sessions, userID[p])
              answered == ProcessConversationOK(stored, input[p], st, r)
              ns == InlineMerge(stored, answered)
          IN  /\ sessions' = UpdateSession(sessions, userID[p], ns)
              /\ IF ns.Step = Step_COMPLETED
                    THEN /\ ~sendErr
                         /\ pc' = [pc EXCEPT ![p] = "save"]
                         /\ aiState' = [aiState EXCEPT ![p] = st]
                         /\ newState' = [newState EXCEPT ![p] = ns]
                         /\ reply' = [reply EXCEPT ![p] = r]
                         /\ UNCHANGED <<userID, input, currentState, saveCalls,
                                        saveErr, last>>
                    ELSE /\ last' = Finished(userID[p], "followup", r, sendErr,
                                             <<>>, "nil", st)
                         /\ Return(p)
    /\ UNCHANGED <<aiClient, dispatcher, turns, savedSinceClear, mvars, hvars, pvars>>

\* ExtractOK, had it left the store alone before a dispatch
ExtractOK_StoresFollowUpsOnly(p) ==
    /\ pc[p] = "ai"
    /\ \E st \in AIStates, r \in AIReplies, sendErr \in BOOLEAN :
          LET answered == ProcessConversationOK(currentState[p], input[p], st, r)
              ns == InlineMerge(currentState[p], answered)
          IN  IF ns.Step = "COMPLETED"
                 THEN /\ ~sendErr
                      /\ pc' = [pc EXCEPT ![p] = "save"]
                      /\ aiState' = [aiState EXCEPT ![p] = st]
                      /\ newState' = [newState EXCEPT ![p] = ns]
                      /\ reply' = [reply EXCEPT ![p] = r]
                      /\ UNCHANGED <<sessions, userID, input, currentState,
                                     saveCalls, saveErr, last>>
                 ELSE /\ sessions' = UpdateSession(sessions, userID[p], ns)
                      /\ last' = Finished(userID[p], "followup", r, sendErr,
                                          <<>>, "nil", st)
                      /\ Return(p)
    /\ UNCHANGED <<aiClient, dispatcher, turns, savedSinceClear, mvars, hvars, pvars>>

\* ExtractOK, had it compared the step without regard to case
ExtractOK_StepAnyCase(p) ==
    /\ pc[p] = "ai"
    /\ \E st \in AIStates, r \in AIReplies, sendErr \in BOOLEAN :
          LET answered == ProcessConversationOK(currentState[p], input[p], st, r)
              ns == InlineMerge(currentState[p], answered)
          IN  /\ sessions' = UpdateSession(sessions, userID[p], ns)
              /\ IF ns.Step \in {"COMPLETED", "completed"}
                    THEN /\ ~sendErr
                         /\ pc' = [pc EXCEPT ![p] = "save"]
                         /\ aiState' = [aiState EXCEPT ![p] = st]
                         /\ newState' = [newState EXCEPT ![p] = ns]
                         /\ reply' = [reply EXCEPT ![p] = r]
                         /\ UNCHANGED <<userID, input, currentState, saveCalls,
                                        saveErr, last>>
                    ELSE /\ last' = Finished(userID[p], "followup", r, sendErr,
                                             <<>>, "nil", st)
                         /\ Return(p)
    /\ UNCHANGED <<aiClient, dispatcher, turns, savedSinceClear, mvars, hvars, pvars>>

\* lines 329-361 and 376-377: the extractor answered; merge, UpdateSession,
\* then either go on to saveDailyReport or send the follow-up question
ExtractOK(p) ==
    /\ pc[p] = "ai"
    /\ \E st \in AIStates, r \in AIReplies, sendErr \in BOOLEAN :
          LET answered == ProcessConversationOK(currentState[p], input[p], st, r)
              ns == InlineMerge(currentState[p], answered)
          IN  /\ sessions' = UpdateSession(sessions, userID[p], ns)
              /\ IF ns.Step = Step_COMPLETED
                    THEN /\ ~sendErr
                         /\ pc' = [pc EXCEPT ![p] = "save"]
                         /\ aiState' = [aiState EXCEPT ![p] = st]
                         /\ newState' = [newState EXCEPT ![p] = ns]
                         /\ reply' = [reply EXCEPT ![p] = r]
                         /\ UNCHANGED <<userID, input, currentState, saveCalls,
                                        saveErr, last>>
                    ELSE /\ last' = Finished(userID[p], "followup", r, sendErr,
                                             <<>>, "nil", st)
                         /\ Return(p)
    /\ UNCHANGED <<aiClient, dispatcher, turns, savedSinceClear, mvars, hvars, pvars>>

\* the successful save calls among those a dispatch made
Succeeded(res) ==
    IF res.err = "nil" \/ res.calls = <<>> THEN res.calls
    ELSE SubSeq(res.calls, 1, Len(res.calls) - 1)

CountSaved(counts, done) ==
    [k \in SaveKinds |->
        counts[k] + Cardinality({i \in 1..Len(done) : done[i].kind = k})]

\* SaveReport, had it cleared the session before the failure reply
SaveReport_ClearsOnFailure(p) ==
    /\ pc[p] = "save"
    /\ \E fails \in SUBSET SaveKinds, sendErr \in BOOLEAN :
          LET res == saveDailyReport(newState[p], dispatcher, fails)
          IN  /\ IF res.err # "nil"
                    THEN /\ last' = Finished(userID[p], "save_failed", SaveFailed,
                                             sendErr, res.calls, res.err,
                                             aiState[p])
                         /\ sessions' = ClearSession(sessions, userID[p])
                         /\ savedSinceClear' =
                               [savedSinceClear EXCEPT ![userID[p]] = NoCounts]
                         /\ Return(p)
                    ELSE /\ ~sendErr
                         /\ pc' = [pc EXCEPT ![p] = "clear"]
                         /\ saveCalls' = [saveCalls EXCEPT ![p] = res.calls]
                         /\ saveErr' = [saveErr EXCEPT ![p] = res.err]
                         /\ savedSinceClear' =
                               [savedSinceClear EXCEPT
                                   ![userID[p]] = CountSaved(@, Succeeded(res))]
                         /\ UNCHANGED <<sessions, userID, input, currentState,
                                        aiState, newState, reply, last>>
    /\ UNCHANGED <<aiClient, dispatcher, turns, mvars, hvars, pvars>>

\* SaveReport, had it gone on to ClearSession whatever saveDailyReport
\* returned
SaveReport_IgnoresError(p) ==
    /\ pc[p] = "save"
    /\ \E fails \in SUBSET SaveKinds :
          LET res == saveDailyReport(newState[p], dispatcher, fails)
          IN  /\ savedSinceClear' =
                    [savedSinceClear EXCEPT
                        ![userID[p]] = CountSaved(@, Succeeded(res))]
              /\ pc' = [pc EXCEPT ![p] = "clear"]
              /\ saveCalls' = [saveCalls EXCEPT ![p] = res.calls]
              /\ saveErr' = [saveErr EXCEPT ![p] = res.err]
    /\ UNCHANGED <<sessions, aiClient, dispatcher, turns, mvars, hvars, pvars, userID, input,
                   currentState, aiState, newState, reply, last>>

\* SaveReport, had it put back the state read at the start of the turn when
\* a save is cancelled
SaveReport_RollsBackOnCancel(p) ==
    /\ pc[p] = "save"
    /\ \E fails \in SUBSET SaveKinds, sendErr, cancelled \in BOOLEAN :
          LET res == saveDailyReport(newState[p], dispatcher, fails)
          IN  /\ savedSinceClear' =
                    [savedSinceClear EXCEPT
                        ![userID[p]] = CountSaved(@, Succeeded(res))]
              /\ cancelled => res.err # "nil" /\ res.calls # <<>>
              /\ IF res.err # "nil"
                    THEN /\ last' = [Finished(userID[p], "save_failed",
                                              SaveFailed, sendErr, res.calls,
                                              res.err, aiState[p])
                                        EXCEPT !.cancelled = cancelled]
                         /\ sessions' =
                               IF cancelled
                                   THEN UpdateSession(sessions, userID[p],
                                                      currentState[p])
                               ELSE sessions
                         /\ Return(p)
                    ELSE /\ ~sendErr
                         /\ pc' = [pc EXCEPT ![p] = "clear"]
                         /\ saveCalls' = [saveCalls EXCEPT ![p] = res.calls]
                         /\ saveErr' = [saveErr EXCEPT ![p] = res.err]
                         /\ UNCHANGED <<sessions, userID, input, currentState,
                                        aiState, newState, reply, last>>
    /\ UNCHANGED <<aiClient, dispatcher, turns, mvars, hvars, pvars>>

\* lines 364-369: saveDailyReport; on an error the failure reply is sent.
\* The failing save may have failed because the context was cancelled.
SaveReport(p) ==
    /\ pc[p] = "save"
    /\ \E fails \in SUBSET SaveKinds, sendErr, cancelled \in BOOLEAN :
          LET res == saveDailyReport(newState[p], dispatcher, fails)
          IN  /\ savedSinceClear' =
                    [savedSinceClear EXCEPT
                        ![userID[p]] = CountSaved(@, Succeeded(res))]
              /\ cancelled => res.err # "nil" /\ res.calls # <<>>
              /\ IF res.err # "nil"
                    THEN /\ last' = [Finished(userID[p], "save_failed",
                                              SaveFailed, sendErr, res.calls,
                                              res.err, aiState[p])
                                        EXCEPT !.cancelled = cancelled]
                         /\ Return(p)
                    ELSE /\ ~sendErr
                         /\ pc' = [pc EXCEPT ![p] = "clear"]
                         /\ saveCalls' = [saveCalls EXCEPT ![p] = res.calls]
                         /\ saveErr' = [saveErr EXCEPT ![p] = res.err]
                         /\ UNCHANGED <<userID, input, currentState, aiState,
                                        newState, reply, last>>
    /\ UNCHANGED <<sessions, aiClient, dispatcher, turns, mvars, hvars, pvars>>

\* ClearAndConfirm, had it sent the extractor's reply before the confirmation
ClearAndConfirm_SendsReply(p) ==
    /\ pc[p] = "clear"
    /\ sessions' = ClearSession(sessions, userID[p])
    /\ savedSinceClear' = [savedSinceClear EXCEPT ![userID[p]] = NoCounts]
    /\ \E sendErr \in BOOLEAN :
          last' = Finished(userID[p], "saved",
                           reply[p] \o "Rapport journalier enregistre avec succes ! A demain.",
                           sendErr, saveCalls[p], saveErr[p], aiState[p])
    /\ Return(p)
    /\ UNCHANGED <<aiClient, dispatcher, turns, mvars, hvars, pvars>>

\* ClearAndConfirm, had a failed send of the confirmation put the session back
ClearAndConfirm_RestoresOnSendFailure(p) ==
    /\ pc[p] = "clear"
    /\ savedSinceClear' = [savedSinceClear EXCEPT ![userID[p]] = NoCounts]
    /\ \E sendErr \in BOOLEAN :
          /\ sessions' = IF sendErr THEN sessions
                         ELSE ClearSession(sessions, userID[p])
          /\ last' = Finished(userID[p], "saved",
                              "Rapport journalier enregistre avec succes ! A demain.",
                              sendErr, saveCalls[p], saveErr[p], aiState[p])
    /\ Return(p)
    /\ UNCHANGED <<aiClient, dispatcher, turns, mvars, hvars, pvars>>

\* lines 371-373: ClearSession, then the confirmation is sent
ClearAndConfirm(p) ==
    /\ pc[p] = "clear"
    /\ sessions' = ClearSession(sessions, userID[p])
    /\ savedSinceClear' = [savedSinceClear EXCEPT ![userID[p]] = NoCounts]
    /\ \E sendErr \in BOOLEAN :
          last' = Finished(userID[p], "saved", Confirmed, sendErr, saveCalls[p],
                           saveErr[p], aiState[p])
    /\ Return(p)
    /\ UNCHANGED <<aiClient, dispatcher, turns, mvars, hvars, pvars>>

Next ==
    \E p \in Procs :
        \/ ReceiveEmpty(p)
        \/ ReceiveCommand(p)
        \/ \E u \in Users, text \in Texts : StartConversation(p, u, text)
        \/ ExtractFail(p)
        \/ ExtractOK(p)
        \/ SaveReport(p)
        \/ ClearAndConfirm(p)

Spec == Init /\ [][Next]_vars

(***************************************************************************)
(* The same service when the transport delivers one message at a time:     *)
(* a message is received only when no call is in flight (HandleWebhook,    *)
(* service.go 275-300, handles the messages of a payload one after the     *)
(* other), so the turns of a user never overlap.  The free-text messages   *)
(* are those of one user; commands come from any user.                     *)
(***************************************************************************)
AllIdle == \A p \in Procs : pc[p] = "idle"

Receiver == CHOOSE p \in Procs : TRUE

\* the user whose conversation is followed
Sender == CHOOSE u \in Users : TRUE

NextSerial ==
    \/ AllIdle /\ ReceiveEmpty(Receiver)
    \/ AllIdle /\ ReceiveCommand(Receiver)
    \/ \E text \in Texts : AllIdle /\ StartConversation(Receiver, Sender, text)
    \/ ExtractFail(Receiver)
    \/ ExtractOK(Receiver)
    \/ SaveReport(Receiver)
    \/ ClearAndConfirm(Receiver)

SpecSerial == Init /\ [][NextSerial]_vars

(***************************************************************************)
(* Merge on its own: prev and incoming are drawn from bounded families,    *)
(* the one step applies ConversationState.Merge to them.  The service is   *)
(* switched off and takes no step.                                         *)
(***************************************************************************)
\* the data fields the ConversationState of anthropic.go declares
StructFields == DataFields \ {"MortalityQty", "MortalityBand"}

RECURSIVE FieldSets(_)
\* the sets of at most k data fields
FieldSets(k) ==
    IF k = 0 THEN {{}}
    ELSE FieldSets(k - 1) \cup
         {F \cup {f} : F \in FieldSets(k - 1), f \in StructFields}

\* the state whose fields F hold the value numbered v, on top of base
WithFields(base, F, v) ==
    [k \in DOMAIN base |-> IF k \in F THEN FieldVal(k, v) ELSE base[k]]

MergeHistories ==
    {<<>>, <<Message("user", "bonjour")>>,
     <<Message("user", "bonjour"), Message("assistant", "Combien d'oeufs ?")>>}

\* a state as stored: some fields set (to one), a step already reached
PrevStates ==
    {WithFields([ZeroState EXCEPT !.Step = Step_COLLECTING,
                                  !.History = <<Message("user", "bonjour")>>],
                F, 1) : F \in FieldSets(MaxMergeFields)}
    \cup {[ZeroState EXCEPT !.Step = st, !.History = h] :
             st \in Steps, h \in MergeHistories}

\* a state as extracted: some fields set (to zero, a value and not an
\* absence), any step, any history
IncomingStates ==
    {WithFields([ZeroState EXCEPT !.Step = Step_COMPLETED], F, 0) :
        F \in FieldSets(MaxMergeFields)}
    \cup {[ZeroState EXCEPT !.Step = st, !.History = h] :
             st \in Steps, h \in MergeHistories}

ServiceOff ==
    /\ sessions = NewSessionManager
    /\ aiClient = FALSE
    /\ dispatcher = FALSE
    /\ pc = [p \in Procs |-> "idle"]
    /\ userID = [p \in Procs |-> ""]
    /\ input = [p \in Procs |-> EmptyText]
    /\ currentState = [p \in Procs |-> ZeroState]
    /\ aiState = [p \in Procs |-> ZeroState]
    /\ newState = [p \in Procs |-> ZeroState]
    /\ reply = [p \in Procs |-> ""]
    /\ saveCalls = [p \in Procs |-> <<>>]
    /\ saveErr = [p \in Procs |-> "nil"]
    /\ turns = 0
    /\ last = NoTurn
    /\ savedSinceClear = [u \in Users |-> NoCounts]

InitMerge ==
    /\ ServiceOff
    /\ prev \in PrevStates
    /\ incoming \in IncomingStates
    /\ merged = ZeroState
    /\ mstage = "input"
    /\ HarnessIdle

\* merged := prev.Merge(incoming)
ApplyMerge ==
    /\ mstage = "input"
    /\ merged' = Merge(prev, incoming)
    /\ mstage' = "merged"
    /\ UNCHANGED <<svars, prev, incoming, hvars, pvars>>

NextMerge == ApplyMerge

SpecMerge == InitMerge /\ [][NextMerge]_vars

\* C1: after Merge, every data field of ConversationState (every field
\* other than step and history) holds the incoming value when the incoming
\* value is non-null and the previous value otherwise.
C1_MergeTakesEveryNonNull ==
    mstage = "merged" =>
        \A f \in StructFields :
            merged[f] = IF IsNull(incoming, f) THEN prev[f] ELSE incoming[f]

\* the input on which C1 fails: only sales_qty is set in incoming
C1_SalesQtyDropped ==
    /\ mstage = "merged"
    /\ prev = [ZeroState EXCEPT !.Step = Step_COLLECTING,
                                !.History = <<Message("user", "bonjour")>>]
    /\ incoming = [ZeroState EXCEPT !.Step = Step_COMPLETED,
                                    !.SalesQty = <<0>>]
    /\ merged.SalesQty = Nil

(***************************************************************************)
(* Properties of the conversation flow.                                    *)
(***************************************************************************)
\* C2: across the turns of one user, a data field of the stored session that
\* is non-null at the start of a turn is still non-null in the stored
\* session once the turn has written it, whatever the extractor returned
\* and for every field group.
C2_FieldsSurviveTurn ==
    [][\A p \in Procs :
          (pc[p] = "ai" /\ pc'[p] # "ai") =>
              \A f \in DataFields :
                  ~IsNull(currentState[p], f) =>
                      /\ sessions'[userID[p]] # NoSession
                      /\ ~IsNull(sessions'[userID[p]], f)]_vars

\* C3: when the extractor call of a turn returns an error, the stored
\* session after the turn is the one of before the turn (absent if it was
\* absent, same history), no save is invoked and the fixed apology is sent.
C3_ExtractorErrorKeepsSession ==
    [][\A p \in Procs :
          (pc[p] = "ai" /\ pc'[p] = "idle" /\ last'.path = "ai_error") =>
              /\ sessions' = sessions
              /\ GetSession(sessions', userID[p]) = currentState[p]
              /\ savedSinceClear' = savedSinceClear
              /\ last'.calls = <<>>
              /\ last'.sends = 1
              /\ last'.body = Apology]_vars

\* a session with its history survived an extractor error
C3_SessionKeptAfterError ==
    /\ AllIdle
    /\ last.path = "ai_error"
    /\ sessions[last.userID] # NoSession
    /\ Len(sessions[last.userID].History) = 2

\* C4: when the merged step of a turn is COMPLETED and every save succeeds,
\* the session is cleared within the turn: the next GetSession of the user
\* returns step COLLECTING, every data field null and an empty history.
C4_ClearedAfterSuccessfulDispatch ==
    (AllIdle /\ last.path \in {"saved", "save_failed"}
             /\ last.dispatchErr = "nil") =>
        /\ last.path = "saved"
        /\ sessions[last.userID] = NoSession
        /\ LET fresh == GetSession(sessions, last.userID)
           IN  /\ fresh.Step = "COLLECTING"
               /\ fresh.History = <<>>
               /\ \A f \in DataFields : IsNull(fresh, f)

\* a report with records was saved and its turn is over
C4_ReportSaved ==
    /\ AllIdle
    /\ last.path = "saved"
    /\ Len(last.calls) >= 2
    /\ last.answer.Step = Step_COMPLETED

\* C5: when the merged step of a turn is COMPLETED and a save fails, or no
\* dispatcher is configured, the session is not cleared and holds the merged
\* data after the turn, and the reply is the failure message, which is
\* neither the confirmation nor the apology.
C5_FailedDispatchKeepsSession ==
    [][\A p \in Procs :
          (/\ pc[p] = "save"
           /\ pc'[p] # "save"
           /\ \/ ~dispatcher
              \/ saveErr'[p] # "nil"
              \/ pc'[p] = "idle" /\ last'.dispatchErr # "nil") =>
              /\ pc'[p] = "idle"
              /\ last'.path = "save_failed"
              /\ last'.dispatchErr # "nil"
              /\ sessions' = sessions
              /\ sessions'[userID[p]] = newState[p]
              /\ last'.body = SaveFailed
              /\ SaveFailed \notin {Confirmed, Apology}]_vars

\* a save of a configured dispatcher failed and the session holds the eggs
C5_SessionKeptAfterFailedSave ==
    /\ AllIdle
    /\ dispatcher
    /\ last.path = "save_failed"
    /\ last.calls # <<>>
    /\ sessions[last.userID] # NoSession
    /\ sessions[last.userID].EggsBand1 # Nil

\* C6: over every interleaving of turns, a stored session is removed only by
\* a turn of its user whose merged step was COMPLETED and whose dispatch
\* returned no error; every other change of a stored session is the write of
\* a turn of its user that extends the history that turn read, never a reset.
C6_RemovedOnlyAfterSuccessfulDispatch ==
    [][\A u \in Users :
          /\ (sessions[u] # NoSession /\ sessions'[u] = NoSession) =>
                \E p \in Procs :
                    /\ userID[p] = u
                    /\ pc[p] = "clear"
                    /\ newState[p].Step = Step_COMPLETED
                    /\ saveErr[p] = "nil"
                    /\ dispatcher
                    /\ last'.path = "saved"
          /\ (sessions'[u] # sessions[u] /\ sessions'[u] # NoSession) =>
                \E p \in Procs :
                    /\ userID[p] = u
                    /\ pc[p] = "ai"
                    /\ Len(sessions'[u].History) = Len(currentState[p].History) + 2]_vars

\* a session was removed while another call of the same user was in flight
C6_RemovedDuringOtherCall ==
    /\ last.path = "saved"
    /\ sessions[last.userID] = NoSession
    /\ \E p \in Procs : pc[p] = "ai" /\ userID[p] = last.userID

\* C7: at the end of every turn the stored session of the user does not
\* have step COMPLETED, including after a turn whose dispatch failed.
C7_CompletedNeverStoredAtTurnEnd ==
    AllIdle =>
        \A u \in Users :
            sessions[u] # NoSession => sessions[u].Step # Step_COMPLETED

\* C7 as the code has it: a turn whose dispatch succeeded ends with no stored
\* session, a turn that sent a follow-up ends with a stored step other than
\* COMPLETED, and a turn whose dispatch failed ends with the stored step
\* COMPLETED.
C7_CompletedStoredOnlyAfterFailedDispatch ==
    AllIdle =>
        /\ last.path = "saved" => sessions[last.userID] = NoSession
        /\ last.path = "followup" =>
              /\ sessions[last.userID] # NoSession
              /\ sessions[last.userID].Step # Step_COMPLETED
        /\ last.path = "save_failed" =>
              /\ sessions[last.userID] # NoSession
              /\ sessions[last.userID].Step = Step_COMPLETED

\* a failed dispatch left COMPLETED stored and a later turn can still start
C7_CompletedStoredForNextTurn ==
    /\ AllIdle
    /\ turns < MaxTurns
    /\ last.path = "save_failed"
    /\ sessions[last.userID] # NoSession
    /\ sessions[last.userID].Step = Step_COMPLETED

\* C8: within one session the stored step only moves forward: no turn
\* replaces a stored step COMPLETED by COLLECTING without a clear in between.
C8_StepNeverRegresses ==
    [][\A u \in Users :
          (/\ sessions[u] # NoSession
           /\ sessions[u].Step = Step_COMPLETED
           /\ sessions'[u] # NoSession) =>
              sessions'[u].Step # Step_COLLECTING]_vars

\* C8 as the code has it: a turn whose extraction succeeds stores the step
\* the extractor answered, whatever step was stored before, so a COMPLETED
\* left by a failed dispatch becomes COLLECTING when the answer says so.
C8_StoredStepIsAnsweredStep ==
    (AllIdle /\ last.path \in {"followup", "save_failed"}) =>
        /\ sessions[last.userID] # NoSession
        /\ sessions[last.userID].Step = last.answer.Step

\* a save was made for a session that was never cleared since (its step was
\* COMPLETED then) and the stored step is COLLECTING now
C8_CompletedBecameCollecting ==
    /\ AllIdle
    /\ last.path = "followup"
    /\ sessions[last.userID] # NoSession
    /\ sessions[last.userID].Step = Step_COLLECTING
    /\ savedSinceClear[last.userID]["eggs"] = 1

\* C9: save-and-clear is exactly-once per completed report: over the turns
\* of one user, a retry after a dispatch that failed part-way included, each
\* record kind of a report is passed to its save at most once before the
\* session is cleared.
C9_EachKindSavedOncePerReport ==
    \A u \in Users, k \in SaveKinds : savedSinceClear[u][k] <= 1

\* the eggs of one report were saved by the failed dispatch and again by
\* the retry
C9_EggsSavedTwice ==
    /\ AllIdle
    /\ last.path = "save_failed"
    /\ savedSinceClear[last.userID]["eggs"] = 2

\* C10: two concurrent turns of one user can both read the session before
\* either writes; the later write is then computed from the state read, not
\* from the session stored at that time: a field that neither the state read
\* nor the answer holds is null after the write, even if the other turn had
\* stored it.
C10_WriteIsBasedOnStateRead ==
    [][\A p \in Procs :
          (pc[p] = "ai" /\ pc'[p] = "idle" /\ last'.path = "followup") =>
              /\ sessions'[userID[p]] # NoSession
              /\ \A f \in DataFields :
                    (IsNull(currentState[p], f) /\ IsNull(last'.answer, f)) =>
                        IsNull(sessions'[userID[p]], f)]_vars

\* a call that stored the eggs it extracted is still dispatching them, and
\* the stored session of its user no longer holds them
C10_LostUpdate ==
    \E q \in Procs :
        /\ pc[q] = "save"
        /\ newState[q].EggsBand1 # Nil
        /\ sessions[userID[q]] # NoSession
        /\ sessions[userID[q]].EggsBand1 = Nil

\* C11: under every interleaving of concurrent turns, each GetSession,
\* UpdateSession and ClearSession is one atomic step, a read returns the
\* caller's own entry, and a step that changes the stored session of user v
\* is a write or a clear of a call of v and changes no other user's entry.
C11_UsersAreIsolated ==
    [][/\ \A v \in Users :
             sessions'[v] # sessions[v] =>
                 /\ \E p \in Procs :
                       /\ userID[p] = v
                       /\ pc[p] \in {"ai", "clear"}
                       /\ pc'[p] # pc[p]
                 /\ \A w \in Users \ {v} : sessions'[w] = sessions[w]
       /\ \A p \in Procs :
             (pc[p] = "idle" /\ pc'[p] = "ai") =>
                 /\ sessions' = sessions
                 /\ currentState'[p] =
                       IF sessions[userID'[p]] = NoSession
                           THEN [ZeroState EXCEPT !.Step = "COLLECTING"]
                       ELSE sessions[userID'[p]]]_vars

\* two calls of different users are in flight and each user's entry is
\* what that user's call wrote
C11_TwoUsersInFlight ==
    \E p, q \in Procs :
        /\ pc[p] = "save"
        /\ pc[q] = "save"
        /\ userID[p] # userID[q]
        /\ sessions[userID[p]] = newState[p]
        /\ sessions[userID[q]] = newState[q]
        /\ newState[p] # newState[q]

(***************************************************************************)
(* The SessionManager on its own (part_004 60-96): any sequence of         *)
(* GetSession, UpdateSession and ClearSession calls, for any user, on a    *)
(* store that starts empty.  The service is switched off.                  *)
(***************************************************************************)
\* the states the callers store
StoreStates ==
    {[ZeroState EXCEPT !.Step = Step_COLLECTING],
     [Extraction({"EggsBand1", "EggsBand2", "EggsBand3"}, 1, Step_COLLECTING)
         EXCEPT !.History = <<Message("user", "bonjour")>>],
     Extraction({"MortalityQty", "MortalityBand"}, 0, Step_COMPLETED)}

InitStore ==
    /\ ServiceOff
    /\ MergeIdle
    /\ HarnessIdle

\* GetSession, had it stored the default state it returns
StoreGet_Creates(u) ==
    /\ op' = [kind |-> "get", user |-> u, arg |-> ZeroState,
              result |-> GetSession(sessions, u), before |-> sessions]
    /\ sessions' = [sessions EXCEPT ![u] = GetSession(sessions, u)]
    /\ UNCHANGED <<aiClient, dispatcher, pc, userID, input, currentState,
                   aiState, newState, reply, saveCalls, saveErr, turns, last,
                   savedSinceClear, mvars, pvars>>

\* state := sm.GetSession(u)
StoreGet(u) ==
    /\ op' = [kind |-> "get", user |-> u, arg |-> ZeroState,
              result |-> GetSession(sessions, u), before |-> sessions]
    /\ UNCHANGED <<svars, mvars, pvars>>

\* sm.UpdateSession(u, state)
StorePut(u, state) ==
    /\ op' = [kind |-> "put", user |-> u, arg |-> state, result |-> ZeroState,
              before |-> sessions]
    /\ sessions' = UpdateSession(sessions, u, state)
    /\ UNCHANGED <<aiClient, dispatcher, pc, userID, input, currentState,
                   aiState, newState, reply, saveCalls, saveErr, turns, last,
                   savedSinceClear, mvars, pvars>>

\* sm.ClearSession(u)
StoreClear(u) ==
    /\ op' = [kind |-> "clear", user |-> u, arg |-> ZeroState,
              result |-> ZeroState, before |-> sessions]
    /\ sessions' = ClearSession(sessions, u)
    /\ UNCHANGED <<aiClient, dispatcher, pc, userID, input, currentState,
                   aiState, newState, reply, saveCalls, saveErr, turns, last,
                   savedSinceClear, mvars, pvars>>

NextStore ==
    \E u \in Users :
        \/ StoreGet(u)
        \/ \E state \in StoreStates : StorePut(u, state)
        \/ StoreClear(u)

SpecStore == InitStore /\ [][NextStore]_vars

\* C12: GetSession for a user with no stored session returns step
\* COLLECTING, every data field null and an empty history, and stores
\* nothing; ClearSession of an absent user changes nothing, and a second
\* ClearSession changes nothing after the first.
C12_GetDefaultAndClearIdempotent ==
    /\ (op.kind = "get" /\ op.before[op.user] = NoSession) =>
          /\ op.result.Step = "COLLECTING"
          /\ op.result.History = <<>>
          /\ \A f \in DataFields : IsNull(op.result, f)
          /\ sessions = op.before
    /\ op.kind = "get" => sessions = op.before
    /\ op.kind = "clear" =>
          /\ sessions[op.user] = NoSession
          /\ \A w \in Users \ {op.user} : sessions[w] = op.before[w]
          /\ op.before[op.user] = NoSession => sessions = op.before
          /\ ClearSession(sessions, op.user) = sessions

\* a user without a session was read while another user had one
C12_AbsentUserRead ==
    /\ op.kind = "get"
    /\ op.before[op.user] = NoSession
    /\ \E w \in Users : sessions[w] # NoSession

\* C13: after UpdateSession(u, s), GetSession(u) returns exactly s whatever
\* was stored for u before, u has that one entry, and no other entry moved.
C13_PutReplaces ==
    op.kind = "put" =>
        /\ GetSession(sessions, op.user) = op.arg
        /\ sessions[op.user] = op.arg
        /\ \A w \in Users \ {op.user} : sessions[w] = op.before[w]

\* a stored state was replaced by a different one
C13_ExistingReplaced ==
    /\ op.kind = "put"
    /\ op.before[op.user] # NoSession
    /\ op.before[op.user] # op.arg

\* C14: every inbound message handled by the service ends with exactly one
\* reply sent to its sender, on every path of a turn, a message from which
\* no text can be extracted included.
C14_EveryMessageIsAnswered ==
    last.path # "none" => last.sends = 1

\* a message without text was handled: nothing was sent, an error returned
C14_EmptyMessageUnanswered ==
    /\ last.path = "empty"
    /\ last.sends = 0
    /\ last.err = "empty message body"

\* C15: if the extractor call or a save call of a turn is cancelled, the
\* stored session after the turn equals the stored session before the turn.
C15_CancelKeepsPreTurnSession ==
    [][\A p \in Procs :
          (pc[p] # "idle" /\ pc'[p] = "idle" /\ last'.cancelled) =>
              GetSession(sessions', userID[p]) = currentState[p]]_vars

\* C15 as the code has it: a cancelled extractor call leaves the stored
\* session as it was; a cancelled save call fails the dispatch like any
\* failed save, and the merged state stored before the dispatch stays.
C15_CancelledSaveKeepsMergedState ==
    [][\A p \in Procs :
          (pc[p] # "idle" /\ pc'[p] = "idle" /\ last'.cancelled) =>
              \/ /\ pc[p] = "ai"
                 /\ last'.path = "ai_error"
                 /\ sessions' = sessions
                 /\ GetSession(sessions', userID[p]) = currentState[p]
              \/ /\ pc[p] = "save"
                 /\ last'.path = "save_failed"
                 /\ last'.body = SaveFailed
                 /\ sessions'[userID[p]] = newState[p]
                 /\ Len(newState[p].History) = Len(currentState[p].History) + 2]_vars

\* the first turn of a user ended on a cancelled save: the user had no
\* session before it and has one now
C15_SessionCreatedDespiteCancel ==
    /\ AllIdle
    /\ turns = 1
    /\ last.cancelled
    /\ last.path = "save_failed"
    /\ sessions[last.userID] # NoSession

\* the number of save calls of one kind among the calls of a dispatch
CallsOfKind(calls, kind) ==
    Cardinality({i \in 1..Len(calls) : calls[i].kind = kind})

\* C16: for a turn whose merged state has step COMPLETED, the sale fields
\* populated and every reception field null, the dispatch invokes the sale
\* save exactly once and the reception save not at all.
C16_SellerReportSavesOneSale ==
    (/\ AllIdle
     /\ last.path = "saved"
     /\ \A f \in {"SaleQty", "SalePrice", "SaleClient", "SalePaid"} :
           ~IsNull(last.answer, f)
     /\ \A f \in {"ReceptionQty", "ReceptionPrice"} : IsNull(last.answer, f)) =>
        /\ CallsOfKind(last.calls, "sales") = 1
        /\ CallsOfKind(last.calls, "reception") = 0

\* a completed report with the sale fields was confirmed to the user and
\* its session cleared without a single save call
C16_SaleConfirmedButNotSaved ==
    /\ AllIdle
    /\ dispatcher
    /\ last.path = "saved"
    /\ last.answer.SaleQty # Nil
    /\ last.calls = <<>>
    /\ sessions[last.userID] = NoSession


\* C17: for a user with no session, a first turn whose extraction returns
\* the three egg band counts with step COLLECTING leaves a stored session
\* holding the three egg fields with step COLLECTING; a following turn
\* whose extraction returns the mortality and feed fields with step
\* COMPLETED and no egg field makes exactly one egg-record save carrying
\* the three stored egg counts and exactly one mortality-record save, and
\* leaves no stored session.
C17_EggsThenMortalityScenario ==
    [][\A p \in Procs :
        /\ (/\ pc[p] = "ai" /\ pc'[p] = "idle"
            /\ sessions[userID[p]] = NoSession
            /\ last'.path = "followup"
            /\ last'.answer.Step = Step_COLLECTING
            /\ \A f \in {"EggsBand1", "EggsBand2", "EggsBand3"} :
                  ~IsNull(last'.answer, f)) =>
              /\ sessions'[userID[p]] # NoSession
              /\ sessions'[userID[p]].Step = Step_COLLECTING
              /\ \A f \in {"EggsBand1", "EggsBand2", "EggsBand3"} :
                    sessions'[userID[p]][f] = last'.answer[f]
        /\ (/\ pc[p] = "clear" /\ pc'[p] = "idle"
            /\ currentState[p].Step = Step_COLLECTING
            /\ \A f \in {"EggsBand1", "EggsBand2", "EggsBand3"} :
                  ~IsNull(currentState[p], f) /\ IsNull(aiState[p], f)
            /\ aiState[p].Step = Step_COMPLETED
            /\ \A f \in {"MortalityQty", "MortalityBand", "FeedReceived",
                         "FeedQty"} : ~IsNull(aiState[p], f)) =>
              /\ CallsOfKind(saveCalls[p], "eggs") = 1
              /\ \E i \in 1..Len(saveCalls[p]) :
                    /\ saveCalls[p][i].kind = "eggs"
                    /\ saveCalls[p][i].Band1 = currentState[p].EggsBand1[1]
                    /\ saveCalls[p][i].Band2 = currentState[p].EggsBand2[1]
                    /\ saveCalls[p][i].Band3 = currentState[p].EggsBand3[1]
              /\ CallsOfKind(saveCalls[p], "mortality") = 1
              /\ sessions'[userID[p]] = NoSession
      ]_vars

\* the scenario has run: the second turn of a user saved an egg record with
\* a non-zero stored count and a mortality record from an answer that held
\* no egg field, and the session is gone
C17_ScenarioCompleted ==
    /\ AllIdle
    /\ last.path = "saved"
    /\ turns = 2
    /\ last.answer.Step = Step_COMPLETED
    /\ last.answer.EggsBand1 = Nil
    /\ last.answer.MortalityQty # Nil
    /\ last.answer.FeedQty # Nil
    /\ \E i \in 1..Len(last.calls) :
          last.calls[i].kind = "eggs" /\ last.calls[i].Band1 = 1
    /\ CallsOfKind(last.calls, "mortality") = 1
    /\ sessions[last.userID] = NoSession


\* C18: in one dispatch the saves are attempted in the order eggs,
\* mortality, feed; the first save that fails is the last call of the
\* dispatch, its error is what the dispatch returns, and the saves that
\* succeeded before it stay counted as saved.
C18_FirstFailedSaveAborts ==
    (AllIdle /\ dispatcher /\ last.path \in {"saved", "save_failed"}) =>
        LET calls == last.calls
            rank == [k \in SaveKinds |->
                        IF k = "eggs" THEN 1 ELSE IF k = "mortality" THEN 2 ELSE 3]
        IN  /\ \A i, j \in 1..Len(calls) :
                  i < j => rank[calls[i].kind] < rank[calls[j].kind]
            /\ last.path = "saved" => last.dispatchErr = "nil"
            /\ last.path = "save_failed" =>
                  /\ calls # <<>>
                  /\ last.dispatchErr = SaveErr(calls[Len(calls)].kind)
                  /\ calls = SubSeq(PlannedSaves(sessions[last.userID]), 1,
                                    Len(calls))
                  /\ \A i \in 1..(Len(calls) - 1) :
                        savedSinceClear[last.userID][calls[i].kind] >= 1

\* the mortality save failed after the eggs were saved, and the feed save
\* the report called for was not invoked
C18_FeedSkippedAfterMortalityFailed ==
    /\ AllIdle
    /\ dispatcher
    /\ last.path = "save_failed"
    /\ Len(last.calls) = 2
    /\ last.calls[2].kind = "mortality"
    /\ last.dispatchErr = SaveErr("mortality")
    /\ Len(PlannedSaves(sessions[last.userID])) = 3
    /\ savedSinceClear[last.userID]["eggs"] >= 1
    /\ savedSinceClear[last.userID]["feed"] = 0


(***************************************************************************)
(* The extractor's payload and its repair (anthropic.go 338-414).  A text  *)
(* is a sequence of characters; a word that no rule looks into, such as    *)
(* reply or updated_state, is one element.  Positions count from 1, and 0  *)
(* stands for the -1 of strings.Index.                                     *)
(***************************************************************************)
Quote == "\""

LF == "\n"

CR == "\r"

Backslash == "\\"

\* strings.Index(s, sub)
Index(s, sub) ==
    LET hits == {i \in 1..(Len(s) - Len(sub) + 1) :
                    SubSeq(s, i, i + Len(sub) - 1) = sub}
    IN  IF hits = {} THEN 0 ELSE CHOOSE i \in hits : \A j \in hits : i <= j

\* strings.LastIndex(s, sub)
LastIndex(s, sub) ==
    LET hits == {i \in 1..(Len(s) - Len(sub) + 1) :
                    SubSeq(s, i, i + Len(sub) - 1) = sub}
    IN  IF hits = {} THEN 0 ELSE CHOOSE i \in hits : \A j \in hits : i >= j

\* strings.ReplaceAll(s, old, new) for a one-character old
RECURSIVE ReplaceAll(_, _, _)
ReplaceAll(s, old, new) ==
    IF s = <<>> THEN <<>>
    ELSE (IF Head(s) = old THEN new ELSE <<Head(s)>>)
         \o ReplaceAll(Tail(s), old, new)

\* sanitizeJSON, had it ended the value at the final closing brace
sanitizeJSON_ToFinalBrace(inputText) ==
    LET keyIdx == Index(inputText, <<Quote, "reply", Quote>>)
        colonIdx == keyIdx + Index(SubSeq(inputText, keyIdx, Len(inputText)), <<":">>) - 1
        valueStartAbs ==
            colonIdx + Index(SubSeq(inputText, colonIdx, Len(inputText)), <<Quote>>)
        lastBraceIdx == LastIndex(inputText, <<"}">>)
        valueEndAbs == lastBraceIdx
        content == SubSeq(inputText, valueStartAbs, valueEndAbs - 1)
        escaped == ReplaceAll(ReplaceAll(content, LF, <<Backslash, "n">>), CR, <<>>)
    IN  IF keyIdx = 0 THEN inputText
        ELSE IF colonIdx = keyIdx - 1 THEN inputText
        ELSE IF valueStartAbs = colonIdx THEN inputText
        ELSE IF lastBraceIdx = 0 THEN inputText
        ELSE IF valueEndAbs = 0 \/ valueEndAbs <= valueStartAbs THEN inputText
        ELSE SubSeq(inputText, 1, valueStartAbs - 1) \o escaped
             \o SubSeq(inputText, valueEndAbs, Len(inputText))

\* sanitizeJSON, had it escaped the newlines of the whole payload
sanitizeJSON_EscapesWholeInput(inputText) ==
    LET keyIdx == Index(inputText, <<Quote, "reply", Quote>>)
        colonIdx == keyIdx + Index(SubSeq(inputText, keyIdx, Len(inputText)), <<":">>) - 1
        valueStartAbs ==
            colonIdx + Index(SubSeq(inputText, colonIdx, Len(inputText)), <<Quote>>)
        lastBraceIdx == LastIndex(inputText, <<"}">>)
        valueEndAbs == LastIndex(SubSeq(inputText, 1, lastBraceIdx - 1), <<Quote>>)
    IN  IF keyIdx = 0 THEN inputText
        ELSE IF colonIdx = keyIdx - 1 THEN inputText
        ELSE IF valueStartAbs = colonIdx THEN inputText
        ELSE IF lastBraceIdx = 0 THEN inputText
        ELSE IF valueEndAbs = 0 \/ valueEndAbs <= valueStartAbs THEN inputText
        ELSE ReplaceAll(ReplaceAll(inputText, LF, <<Backslash, "n">>), CR, <<>>)

\* sanitizeJSON, had it doubled the backslashes of the value as well
sanitizeJSON_EscapesBackslash(inputText) ==
    LET keyIdx == Index(inputText, <<Quote, "reply", Quote>>)
        colonIdx == keyIdx + Index(SubSeq(inputText, keyIdx, Len(inputText)), <<":">>) - 1
        valueStartAbs ==
            colonIdx + Index(SubSeq(inputText, colonIdx, Len(inputText)), <<Quote>>)
        lastBraceIdx == LastIndex(inputText, <<"}">>)
        valueEndAbs == LastIndex(SubSeq(inputText, 1, lastBraceIdx - 1), <<Quote>>)
        content == SubSeq(inputText, valueStartAbs, valueEndAbs - 1)
        escaped == ReplaceAll(ReplaceAll(ReplaceAll(content, Backslash,
                                                    <<Backslash, Backslash>>),
                                         LF, <<Backslash, "n">>), CR, <<>>)
    IN  IF keyIdx = 0 THEN inputText
        ELSE IF colonIdx = keyIdx - 1 THEN inputText
        ELSE IF valueStartAbs = colonIdx THEN inputText
        ELSE IF lastBraceIdx = 0 THEN inputText
        ELSE IF valueEndAbs = 0 \/ valueEndAbs <= valueStartAbs THEN inputText
        ELSE SubSeq(inputText, 1, valueStartAbs - 1) \o escaped
             \o SubSeq(inputText, valueEndAbs, Len(inputText))

\* lines 367-414.  keyIdx, colonIdx, valueStartAbs, lastBraceIdx and
\* valueEndAbs are the code's indexes plus one; valueStartAbs is the first
\* character of the value and valueEndAbs its closing quote.
sanitizeJSON(inputText) ==
    LET keyIdx == Index(inputText, <<Quote, "reply", Quote>>)
        colonIdx == keyIdx + Index(SubSeq(inputText, keyIdx, Len(inputText)), <<":">>) - 1
        valueStartAbs ==
            colonIdx + Index(SubSeq(inputText, colonIdx, Len(inputText)), <<Quote>>)
        lastBraceIdx == LastIndex(inputText, <<"}">>)
        valueEndAbs == LastIndex(SubSeq(inputText, 1, lastBraceIdx - 1), <<Quote>>)
        content == SubSeq(inputText, valueStartAbs, valueEndAbs - 1)
        escaped == ReplaceAll(ReplaceAll(content, LF, <<Backslash, "n">>), CR, <<>>)
    IN  IF keyIdx = 0 THEN inputText
        ELSE IF colonIdx = keyIdx - 1 THEN inputText
        ELSE IF valueStartAbs = colonIdx THEN inputText
        ELSE IF lastBraceIdx = 0 THEN inputText
        ELSE IF valueEndAbs = 0 \/ valueEndAbs <= valueStartAbs THEN inputText
        ELSE SubSeq(inputText, 1, valueStartAbs - 1) \o escaped
             \o SubSeq(inputText, valueEndAbs, Len(inputText))


(***************************************************************************)
(* json.Unmarshal into the aiResult struct (anthropic.go 339-344), for     *)
(* texts made of the characters above: objects, strings, numbers and null. *)
(* A literal newline or carriage return inside a string, a backslash that  *)
(* starts no escape and any character out of place is a syntax error.  A   *)
(* parsed value is kept as its text without white space and with the       *)
(* escapes of its strings decoded.                                         *)
(***************************************************************************)
Whitespace == {" ", LF, CR}

Literals == {"1", "null"}

Failed == [ok |-> FALSE, next |-> 0, kind |-> "", val |-> <<>>, fields |-> <<>>]

RECURSIVE SkipSpace(_, _)
SkipSpace(s, i) ==
    IF i <= Len(s) /\ s[i] \in Whitespace THEN SkipSpace(s, i + 1) ELSE i

\* the string whose body starts at i; acc is what has been decoded of it
RECURSIVE ScanString(_, _, _)
ScanString(s, i, acc) ==
    IF i > Len(s) THEN Failed
    ELSE IF s[i] = Quote
        THEN [ok |-> TRUE, next |-> i + 1, kind |-> "string",
              val |-> <<Quote>> \o acc \o <<Quote>>, fields |-> <<>>]
    ELSE IF s[i] \in {LF, CR} THEN Failed
    ELSE IF s[i] = Backslash
        THEN IF i + 1 > Len(s) THEN Failed
             ELSE IF s[i + 1] = "n" THEN ScanString(s, i + 2, Append(acc, LF))
             ELSE IF s[i + 1] \in {Quote, Backslash}
                 THEN ScanString(s, i + 2, Append(acc, s[i + 1]))
             ELSE Failed
    ELSE ScanString(s, i + 1, Append(acc, s[i]))

RECURSIVE ParseValue(_, _)
RECURSIVE ParseMembers(_, _, _, _)
\* the value that starts at i
ParseValue(s, i) ==
    IF i > Len(s) THEN Failed
    ELSE IF s[i] = Quote THEN ScanString(s, i + 1, <<>>)
    ELSE IF s[i] = "{"
        THEN LET j == SkipSpace(s, i + 1)
             IN  IF j <= Len(s) /\ s[j] = "}"
                    THEN [ok |-> TRUE, next |-> j + 1, kind |-> "object",
                          val |-> <<"{", "}">>, fields |-> <<>>]
                 ELSE ParseMembers(s, j, <<"{">>, <<>>)
    ELSE IF s[i] \in Literals
        THEN [ok |-> TRUE, next |-> i + 1, kind |-> "literal",
              val |-> <<s[i]>>, fields |-> <<>>]
    ELSE Failed

\* the members of an object from the key that starts at i; text and fields
\* are what has been read of the object
ParseMembers(s, i, text, fields) ==
    IF i > Len(s) \/ s[i] # Quote THEN Failed
    ELSE LET k == ScanString(s, i + 1, <<>>)
             c == SkipSpace(s, k.next)
             v == ParseValue(s, SkipSpace(s, c + 1))
             e == SkipSpace(s, v.next)
             text2 == text \o k.val \o <<":">> \o v.val
             fields2 == Append(fields, [key |-> k.val, kind |-> v.kind,
                                        val |-> v.val])
         IN  IF ~k.ok THEN Failed
             ELSE IF c > Len(s) \/ s[c] # ":" THEN Failed
             ELSE IF ~v.ok THEN Failed
             ELSE IF e > Len(s) THEN Failed
             ELSE IF s[e] = "}"
                 THEN [ok |-> TRUE, next |-> e + 1, kind |-> "object",
                       val |-> text2 \o <<"}">>, fields |-> fields2]
             ELSE IF s[e] = ","
                 THEN ParseMembers(s, SkipSpace(s, e + 1), text2 \o <<",">>,
                                   fields2)
             ELSE Failed

\* the value of the last field named key among fields, or the empty record
FieldOf(fields, key) ==
    LET hits == {i \in 1..Len(fields) : fields[i].key = <<Quote, key, Quote>>}
    IN  IF hits = {} THEN [key |-> <<>>, kind |-> "absent", val |-> <<>>]
        ELSE fields[CHOOSE i \in hits : \A j \in hits : i >= j]

\* json.Unmarshal([]byte(text), &aiResult): the error and the two fields
Unmarshal(text) ==
    LET start == SkipSpace(text, 1)
        obj == ParseValue(text, start)
        r == FieldOf(obj.fields, "reply")
        u == FieldOf(obj.fields, "updated_state")
    IN  IF ~obj.ok \/ obj.kind # "object"
               \/ SkipSpace(text, obj.next) # Len(text) + 1
               \/ r.kind \in {"object"} \/ r.val = <<"1">>
               \/ u.kind = "string" \/ u.val = <<"1">>
            THEN [err |-> "unmarshal", UpdatedState |-> <<>>, Reply |-> <<>>]
        ELSE [err |-> "nil",
              UpdatedState |-> IF u.kind = "object" THEN u.val ELSE <<>>,
              Reply |-> IF r.kind = "string"
                           THEN SubSeq(r.val, 2, Len(r.val) - 1) ELSE <<>>]

Fallback == <<"Desole, je n'ai pas bien compris. Pouvez-vous repeter ?">>

\* lines 344-364: the parse, the repair of a text that does not parse, and
\* the fallback
ParseResponse(text) ==
    LET first == Unmarshal(text)
        repaired == sanitizeJSON(text)
        second == Unmarshal(repaired)
    IN  IF first.err = "nil" THEN first
        ELSE IF repaired # text /\ second.err = "nil" THEN second
        ELSE [err |-> "unmarshal", UpdatedState |-> <<>>, Reply |-> Fallback]


(***************************************************************************)
(* The parse harness.  A payload is built from the text of the state       *)
(* object, the characters of the reply value, the order of the two fields, *)
(* the white space after the comma between them and the white space before *)
(* the closing brace; a few payloads that sanitizeJSON returns as they are *)
(* are added.                                                              *)
(***************************************************************************)
StateTexts ==
    {<<"{", "}">>,
     <<"{", Quote, "notes", Quote, ":", Quote, "x", Quote, "}">>,
     <<"{", Quote, "eggs_band_1", Quote, ":", "1", ",", LF,
       Quote, "notes", Quote, ":", Quote, "x", Quote, LF, "}">>,
     <<"{", Quote, "notes", Quote, ":", Quote, "reply", Quote, "}">>,
     <<"{", Quote, "notes", Quote, ":", Quote, "reply", Quote, ",",
       Quote, "step", Quote, ":", Quote, "x", Quote, LF, "}">>}

ReplyValues ==
    {<<"x">>,
     <<"x", LF, "x">>,
     <<LF>>,
     <<"x", LF, LF>>,
     <<"x", Backslash, Quote, "x", LF>>,
     <<"x", "}", ":", LF, "x">>,
     <<"x", Backslash, "n", LF>>,
     <<"x", CR, LF, "x">>,
     <<CR, "x">>}

Gaps == {<<>>, <<" ">>, <<LF>>}

Payload(replyFirst, stateText, replyValue, gap, tail) ==
    LET replyField == <<Quote, "reply", Quote, ":">> \o gap
                      \o <<Quote>> \o replyValue \o <<Quote>>
        stateField == <<Quote, "updated_state", Quote, ":">> \o stateText
    IN  <<"{">>
        \o (IF replyFirst THEN replyField \o <<",">> \o gap \o stateField
            ELSE stateField \o <<",">> \o gap \o replyField)
        \o tail \o <<"}">>

OtherPayloads ==
    {<<"{", Quote, "updated_state", Quote, ":", "{", "}", "}">>,
     <<"{", Quote, "reply", Quote, "}">>,
     <<"{", Quote, "reply", Quote, ":", "1", "}">>,
     <<"{", Quote, "reply", Quote, ":", Quote, "x", LF>>,
     <<"{", Quote, "reply", Quote, ":", Quote, "}">>,
     <<"x", LF, "x">>,
     <<"{", LF, Quote, "updated_state", Quote, ":", "{", "}", "}">>,
     <<"{", Quote, "reply", Quote, LF, "}">>,
     <<"{", Quote, "reply", Quote, ":", "1", LF, "}">>,
     <<"{", Quote, "reply", Quote, ":", Quote, LF, "}">>}

Payloads ==
    {Payload(f, st, r, g, t) : f \in BOOLEAN, st \in StateTexts,
                               r \in ReplyValues, g \in Gaps,
                               t \in {<<>>, <<LF>>}}
    \cup OtherPayloads

\* the states ProcessConversation is called with: the default state of a
\* user without session and a session of one earlier turn
CallStates ==
    {[ZeroState EXCEPT !.Step = "COLLECTING"],
     [ZeroState EXCEPT !.Step = "COLLECTING",
                       !.EggsBand1 = <<1>>,
                       !.History = <<Message("user", <<"x">>),
                                     Message("assistant", <<"x">>)>>]}

\* the user's utterance of the call
Utterance == <<"x", " ", "x">>

\* lines 344-364, had the failure returned the state with the utterance
\* appended to its history
ProcessConversationParse_AppendsOnFailure(state, text, payload) ==
    LET res == ParseResponse(payload)
        currentHistory == Append(state.History, Message("user", text))
    IN  IF res.err = "nil"
            THEN [state |-> [UpdatedState |-> res.UpdatedState,
                             History |-> Append(currentHistory,
                                                Message("assistant", res.Reply))],
                  reply |-> res.Reply, err |-> "nil"]
        ELSE [state |-> [state EXCEPT !.History = currentHistory],
              reply |-> Fallback, err |-> "unmarshal"]

\* lines 294 and 344-364: what ProcessConversation returns for a payload.
\* On success the state is the parsed updated_state with the history
\* rebuilt from the caller's; on failure it is the caller's state.
ProcessConversationParse(state, text, payload) ==
    LET res == ParseResponse(payload)
        currentHistory == Append(state.History, Message("user", text))
    IN  IF res.err = "nil"
            THEN [state |-> [UpdatedState |-> res.UpdatedState,
                             History |-> Append(currentHistory,
                                                Message("assistant", res.Reply))],
                  reply |-> res.Reply, err |-> "nil"]
        ELSE [state |-> state, reply |-> Fallback, err |-> "unmarshal"]

\* the role values ProcessConversation is called with: the two it tests
\* for, the empty string, another name and a differently cased one
Roles == {"seller", "expense_manager", "", "farmer", "Seller"}

\* the role branch, had it had no final else
SystemPrompt_NoDefault(r) ==
    IF r = "seller" THEN "sales manager"
    ELSE IF r = "expense_manager" THEN "expense manager"
    ELSE IF r = "farmer" THEN "farmer"
    ELSE ""

\* lines 177-291: the system prompt is the sales manager's for "seller",
\* the expense manager's for "expense_manager" and the farmer's otherwise
SystemPrompt(r) ==
    IF r = "seller" THEN "sales manager"
    ELSE IF r = "expense_manager" THEN "expense manager"
    ELSE "farmer"

InitParse ==
    /\ ServiceOff
    /\ MergeIdle
    /\ op = NoOp
    /\ responseText \in Payloads
    /\ sanitized = <<>>
    /\ aiResult = NoResult
    /\ pstage = "raw"
    /\ callState \in CallStates
    /\ returned = NoReturn
    /\ role \in Roles
    /\ systemPrompt = "none"

\* lines 177-291
BuildPrompt ==
    /\ pstage = "raw"
    /\ systemPrompt = "none"
    /\ systemPrompt' = SystemPrompt(role)
    /\ UNCHANGED <<svars, mvars, hvars, responseText, sanitized, aiResult,
                   pstage, callState, returned, role>>

\* sanitized := sanitizeJSON(responseText)
Sanitize ==
    /\ pstage = "raw"
    /\ sanitized' = sanitizeJSON(responseText)
    /\ pstage' = "sanitized"
    /\ UNCHANGED <<svars, mvars, hvars, responseText, aiResult, callState,
                   returned, role, systemPrompt>>

\* lines 344-364 on responseText
Parse ==
    /\ pstage \in {"raw", "sanitized"}
    /\ aiResult' = ParseResponse(responseText)
    /\ sanitized' = sanitizeJSON(responseText)
    /\ returned' = ProcessConversationParse(callState, Utterance, responseText)
    /\ pstage' = "parsed"
    /\ UNCHANGED <<svars, mvars, hvars, responseText, callState, role,
                   systemPrompt>>

NextParse == BuildPrompt \/ Sanitize \/ Parse

SpecParse == InitParse /\ [][NextParse]_vars


\* C19: for a payload that is a well-formed JSON object except for literal
\* newlines inside the reply string value, the parse succeeds after
\* sanitizeJSON and returns the state and the reply that the payload with
\* those newlines written as escapes parses to.
C19_NewlineInReplyIsRepaired ==
    pstage = "parsed" =>
        \A f \in BOOLEAN, st \in StateTexts, r \in ReplyValues, g \in Gaps,
           t \in {<<>>, <<LF>>} :
            (/\ responseText = Payload(f, st, r, g, t)
             /\ \E i \in 1..Len(r) : r[i] = LF
             /\ \A i \in 1..Len(r) : r[i] # CR) =>
                LET escaped == Payload(f, st,
                                       ReplaceAll(r, LF, <<Backslash, "n">>),
                                       g, t)
                IN  /\ Unmarshal(escaped).err = "nil"
                    /\ aiResult = Unmarshal(escaped)

\* C19 for the payloads in which the reply field is the last field and no
\* string "reply" comes before the reply key
C19_NewlineInLastReplyIsRepaired ==
    pstage = "parsed" =>
        \A st \in StateTexts, r \in ReplyValues, g \in Gaps,
           t \in {<<>>, <<LF>>} :
            (/\ responseText = Payload(FALSE, st, r, g, t)
             /\ Index(st, <<Quote, "reply", Quote>>) = 0
             /\ \E i \in 1..Len(r) : r[i] = LF
             /\ \A i \in 1..Len(r) : r[i] # CR) =>
                LET escaped == Payload(FALSE, st,
                                       ReplaceAll(r, LF, <<Backslash, "n">>),
                                       g, t)
                IN  /\ Unmarshal(escaped).err = "nil"
                    /\ aiResult = Unmarshal(escaped)
                    /\ sanitized = escaped

\* a pretty-printed payload whose reply value held a newline did not parse,
\* was repaired, and parsed to a reply that holds the newline
C19_RepairedReplyParsed ==
    /\ pstage = "parsed"
    /\ \E st \in StateTexts, r \in ReplyValues :
          /\ responseText = Payload(FALSE, st, r, <<LF>>, <<LF>>)
          /\ \E i \in 1..Len(st) : st[i] = LF
    /\ Unmarshal(responseText).err # "nil"
    /\ sanitized # responseText
    /\ aiResult.err = "nil"
    /\ \E i \in 1..Len(aiResult.Reply) : aiResult.Reply[i] = LF
    /\ aiResult.UpdatedState # <<>>


\* C20: sanitizeJSON changes only the characters between the first quote
\* after the colon that follows the reply key and the last quote before the
\* final closing brace: the text up to that first quote and the text from
\* that last quote on are unchanged, and between them every literal newline
\* and every carriage return is replaced by its escape.
C20_SpanEscapedRestUnchanged ==
    pstage \in {"sanitized", "parsed"} =>
        LET txt == responseText
            n == Len(txt)
            keys == {i \in 1..(n - 2) :
                        txt[i] = Quote /\ txt[i + 1] = "reply" /\ txt[i + 2] = Quote}
            k == CHOOSE i \in keys : \A j \in keys : i <= j
            colons == {i \in k..n : txt[i] = ":"}
            c == CHOOSE i \in colons : \A j \in colons : i <= j
            opens == {i \in c..n : txt[i] = Quote}
            q1 == CHOOSE i \in opens : \A j \in opens : i <= j
            braces == {i \in 1..n : txt[i] = "}"}
            b == CHOOSE i \in braces : \A j \in braces : i >= j
            closes == {i \in 1..(b - 1) : txt[i] = Quote}
            q2 == CHOOSE i \in closes : \A j \in closes : i >= j
            m == Len(sanitized)
        IN  IF keys = {} \/ colons = {} \/ opens = {} \/ braces = {}
               \/ closes = {} \/ q2 <= q1 + 1
                THEN sanitized = txt
            ELSE /\ m >= n - (q2 - q1 - 1)
                 /\ SubSeq(sanitized, 1, q1) = SubSeq(txt, 1, q1)
                 /\ SubSeq(sanitized, m - (n - q2), m) = SubSeq(txt, q2, n)
                 /\ SubSeq(sanitized, q1 + 1, m - (n - q2) - 1) =
                       ReplaceAll(ReplaceAll(SubSeq(txt, q1 + 1, q2 - 1),
                                             LF, <<Backslash, "n">>),
                                  CR, <<Backslash, "r">>)

\* C20 with the carriage return removed: between the two quotes every
\* literal newline is replaced by its escape and every carriage return is
\* dropped; the rest is unchanged.
C20_SpanEscapedReturnsDropped ==
    pstage \in {"sanitized", "parsed"} =>
        LET txt == responseText
            n == Len(txt)
            keys == {i \in 1..(n - 2) :
                        txt[i] = Quote /\ txt[i + 1] = "reply" /\ txt[i + 2] = Quote}
            k == CHOOSE i \in keys : \A j \in keys : i <= j
            colons == {i \in k..n : txt[i] = ":"}
            c == CHOOSE i \in colons : \A j \in colons : i <= j
            opens == {i \in c..n : txt[i] = Quote}
            q1 == CHOOSE i \in opens : \A j \in opens : i <= j
            braces == {i \in 1..n : txt[i] = "}"}
            b == CHOOSE i \in braces : \A j \in braces : i >= j
            closes == {i \in 1..(b - 1) : txt[i] = Quote}
            q2 == CHOOSE i \in closes : \A j \in closes : i >= j
            m == Len(sanitized)
        IN  IF keys = {} \/ colons = {} \/ opens = {} \/ braces = {}
               \/ closes = {} \/ q2 <= q1 + 1
                THEN sanitized = txt
            ELSE /\ m >= n - (q2 - q1 - 1)
                 /\ SubSeq(sanitized, 1, q1) = SubSeq(txt, 1, q1)
                 /\ SubSeq(sanitized, m - (n - q2), m) = SubSeq(txt, q2, n)
                 /\ SubSeq(sanitized, q1 + 1, m - (n - q2) - 1) =
                       ReplaceAll(ReplaceAll(SubSeq(txt, q1 + 1, q2 - 1),
                                             LF, <<Backslash, "n">>),
                                  CR, <<>>)

\* a reply value with a carriage return and a newline after a pretty-printed
\* state was sanitized: the return is gone, the newline of the value is
\* escaped and the newlines before the value are kept
C20_ReturnDroppedNewlineEscaped ==
    /\ pstage = "sanitized"
    /\ \E st \in StateTexts, r \in ReplyValues :
          /\ responseText = Payload(FALSE, st, r, <<LF>>, <<LF>>)
          /\ \E i, j \in 1..Len(r) : r[i] = CR /\ r[j] = LF
    /\ sanitized # responseText
    /\ \A i \in 1..Len(sanitized) : sanitized[i] # CR
    /\ \E i \in 1..Len(sanitized) : sanitized[i] = LF
    /\ \E i \in 1..(Len(sanitized) - 1) :
          sanitized[i] = Backslash /\ sanitized[i + 1] = "n"

\* C21: when the direct parse and the parse of the sanitized text both
\* fail, ProcessConversation returns an error and the state it was called
\* with: same step, same fields, same history without the utterance.
C21_ParseFailureReturnsCallerState ==
    (/\ pstage = "parsed"
     /\ Unmarshal(responseText).err # "nil"
     /\ Unmarshal(sanitized).err # "nil") =>
        /\ returned.err # "nil"
        /\ returned.state = callState
        /\ returned.state.History = callState.History
        /\ returned.reply = Fallback

\* a payload that no repair makes parse was answered with an error and the
\* caller's state, whose history holds an earlier turn
C21_UnparsablePayloadReturned ==
    /\ pstage = "parsed"
    /\ sanitized # responseText
    /\ Unmarshal(sanitized).err # "nil"
    /\ returned.err = "unmarshal"
    /\ Len(callState.History) = 2
    /\ returned.state = callState

\* C22: the role selection maps every role value to one of three prompts:
\* the sales manager's for seller, the expense manager's for
\* expense_manager and the farmer's for every other value, and it returns
\* no error.
C22_RoleDefaultsToFarmer ==
    systemPrompt # "none" =>
        /\ systemPrompt \in {"farmer", "sales manager", "expense manager"}
        /\ systemPrompt = "sales manager" <=> role = "seller"
        /\ systemPrompt = "expense manager" <=> role = "expense_manager"
        /\ role \notin {"seller", "expense_manager"} => systemPrompt = "farmer"
        /\ pstage = "raw" => returned = NoReturn

\* a role value that matches neither test got the farmer's prompt
C22_UnknownRoleIsFarmer ==
    /\ role = "Seller"
    /\ systemPrompt = "farmer"


\* C23: a message whose text starts with a slash, and any message when no
\* AI client is configured, goes to executeCommand and never to
\* handleConversation, and its handling leaves the session store as it
\* was: a session open for the sender is the same after the message.
C23_CommandPathLeavesSessions ==
    [][/\ (turns' = turns + 1 /\ pc' = pc /\ last'.path = "command") =>
              /\ sessions' = sessions
              /\ savedSinceClear' = savedSinceClear
       /\ \A p \in Procs :
              (pc[p] = "idle" /\ pc'[p] = "ai") =>
                  aiClient /\ ~input'[p].slash]_vars

\* a slash command was handled while the sender had an open session
C23_CommandWithOpenSession ==
    /\ AllIdle
    /\ last.path = "command"
    /\ sessions[last.userID] # NoSession
    /\ sessions[last.userID].History # <<>>


\* C24: on a turn whose merged step is COMPLETED and whose dispatch
\* succeeds, the text sent to the user is the extractor's reply of that
\* turn followed by the fixed confirmation.
C24_ConfirmationCarriesReply ==
    [][\A p \in Procs :
          (pc[p] = "clear" /\ pc'[p] = "idle") =>
              last'.body = reply[p] \o Confirmed]_vars

\* C24 as the code has it: the text sent is the fixed confirmation alone,
\* whatever the extractor's reply of the turn
C24_ConfirmationIsFixedText ==
    [][\A p \in Procs :
          (pc[p] = "clear" /\ pc'[p] = "idle") =>
              /\ last'.path = "saved"
              /\ last'.sends = 1
              /\ last'.body = Confirmed
              /\ reply[p] \in AIReplies
              /\ last'.body # reply[p] \o Confirmed]_vars

\* a completed report was saved and the confirmation sent without error
C24_ConfirmationSent ==
    /\ AllIdle
    /\ last.path = "saved"
    /\ last.body = Confirmed
    /\ last.err = "nil"
    /\ last.dispatchErr = "nil"


\* C25: on a turn whose extractor call succeeds and whose merged step is
\* COLLECTING, the text sent is the extractor's reply (the one appended to
\* the history), no save is invoked, the merged state is stored, and the
\* next turn of that user reads that stored state.
C25_FollowUpKeepsMergedSession ==
    [][\A p \in Procs :
        /\ (/\ pc[p] = "ai" /\ pc'[p] = "idle"
            /\ last'.path = "followup"
            /\ sessions'[userID[p]] # NoSession
            /\ sessions'[userID[p]].Step = Step_COLLECTING) =>
              LET stored == sessions'[userID[p]]
                  h == stored.History
              IN  /\ last'.sends = 1
                  /\ last'.body \in AIReplies
                  /\ h[Len(h)] = Message("assistant", last'.body)
                  /\ h[Len(h) - 1] = Message("user", input[p])
                  /\ last'.calls = <<>>
                  /\ savedSinceClear' = savedSinceClear
                  /\ stored = InlineMerge(currentState[p],
                                 ProcessConversationOK(currentState[p], input[p],
                                                       last'.answer, last'.body))
        /\ (/\ pc[p] = "idle" /\ pc'[p] = "ai"
            /\ last.path = "followup"
            /\ last.userID = userID'[p]
            /\ last.answer.Step = Step_COLLECTING) =>
              /\ sessions[userID'[p]] # NoSession
              /\ currentState'[p] = sessions[userID'[p]]
      ]_vars

\* the second turn of a user has read the session its first turn stored
\* with step COLLECTING, the eggs and the two messages of that turn
C25_NextTurnReadMergedState ==
    \E p \in Procs :
        /\ pc[p] = "ai"
        /\ turns = 2
        /\ last.path = "followup"
        /\ last.userID = userID[p]
        /\ currentState[p].Step = Step_COLLECTING
        /\ currentState[p].EggsBand1 # Nil
        /\ Len(currentState[p].History) = 2
        /\ currentState[p].History[2].Content = last.body


(***************************************************************************)
(* VerifyWebhookToken (service.go 257-272).  The mode is a sequence of     *)
(* characters, so that strings.EqualFold compares it letter by letter.     *)
(***************************************************************************)
\* the simple case folding of the letters the modes are written with
FoldChar(c) ==
    CASE c = "S" -> "s" [] c = "U" -> "u" [] c = "B" -> "b" [] c = "C" -> "c"
      [] c = "R" -> "r" [] c = "I" -> "i" [] c = "E" -> "e" [] c = "N" -> "n"
      [] OTHER -> c

\* strings.EqualFold(s, t)
EqualFold(s, t) ==
    /\ Len(s) = Len(t)
    /\ \A i \in 1..Len(s) : FoldChar(s[i]) = FoldChar(t[i])

Subscribe == <<"s", "u", "b", "s", "c", "r", "i", "b", "e">>

\* VerifyWebhookToken, had it compared the mode with ==
VerifyWebhookToken_CaseSensitive(cfgVerifyToken, mode, verifyToken, challenge) ==
    IF mode = <<>> \/ verifyToken = ""
        THEN [challenge |-> "", err |-> "missing mode or verify token"]
    ELSE IF mode # <<"s", "u", "b", "s", "c", "r", "i", "b", "e">>
        THEN [challenge |-> "", err |-> "unsupported hub.mode"]
    ELSE IF verifyToken # cfgVerifyToken
        THEN [challenge |-> "", err |-> "invalid verify token"]
    ELSE [challenge |-> challenge, err |-> "nil"]

\* cfgVerifyToken is s.cfg.VerifyToken
VerifyWebhookToken(cfgVerifyToken, mode, verifyToken, challenge) ==
    IF mode = <<>> \/ verifyToken = ""
        THEN [challenge |-> "", err |-> "missing mode or verify token"]
    ELSE IF ~EqualFold(mode, Subscribe)
        THEN [challenge |-> "", err |-> "unsupported hub.mode"]
    ELSE IF verifyToken # cfgVerifyToken
        THEN [challenge |-> "", err |-> "invalid verify token"]
    ELSE [challenge |-> challenge, err |-> "nil"]

Modes ==
    {<<>>,
     Subscribe,
     <<"S", "U", "B", "S", "C", "R", "I", "B", "E">>,
     <<"S", "u", "b", "s", "c", "r", "i", "b", "e">>,
     <<"u", "n", "s", "u", "b", "s", "c", "r", "i", "b", "e">>,
     <<"s", "u", "b", "s", "c", "r", "i", "b">>,
     <<"s", "u", "b", "s", "c", "r", "i", "b", "e", " ">>}

Tokens == {"", "secret", "Secret"}

Challenges == {"", "1158201444"}

InitVerify ==
    /\ ServiceOff
    /\ MergeIdle
    /\ HarnessIdle

\* one call of VerifyWebhookToken on a service configured with cfgToken
VerifyCall ==
    \E cfgToken \in Tokens, mode \in Modes, token \in Tokens,
       challenge \in Challenges :
        /\ op' = [kind |-> "verify", user |-> "",
                  arg |-> [cfg |-> cfgToken, mode |-> mode,
                           verifyToken |-> token, challenge |-> challenge],
                  result |-> VerifyWebhookToken(cfgToken, mode, token, challenge),
                  before |-> NewSessionManager]
        /\ UNCHANGED <<svars, mvars, pvars>>

NextVerify == VerifyCall

SpecVerify == InitVerify /\ [][NextVerify]_vars

\* C26: VerifyWebhookToken returns the challenge unchanged and no error
\* exactly when mode and token are non-empty, the mode is subscribe in any
\* letter case and the token is the configured one; otherwise it returns
\* an error and the empty string.
C26_ChallengeOnlyForSubscribeAndToken ==
    op.kind = "verify" =>
        LET a == op.arg
            accepted ==
                /\ a.mode # <<>>
                /\ a.verifyToken # ""
                /\ a.mode \in {<<"s", "u", "b", "s", "c", "r", "i", "b", "e">>,
                               <<"S", "U", "B", "S", "C", "R", "I", "B", "E">>,
                               <<"S", "u", "b", "s", "c", "r", "i", "b", "e">>}
                /\ a.verifyToken = a.cfg
        IN  IF accepted
                THEN op.result = [challenge |-> a.challenge, err |-> "nil"]
            ELSE op.result.err # "nil" /\ op.result.challenge = ""

\* a mode in upper case with the configured token got the challenge back
C26_UpperCaseModeAccepted ==
    /\ op.kind = "verify"
    /\ op.arg.mode = <<"S", "U", "B", "S", "C", "R", "I", "B", "E">>
    /\ op.arg.challenge = "1158201444"
    /\ op.result.err = "nil"
    /\ op.result.challenge = "1158201444"

(***************************************************************************)
(* The command harness: one call of executeCommand, and inside it of       *)
(* HandleCommand, for a command text of one head word and up to            *)
(* MaxArgs arguments.                                                      *)
(***************************************************************************)
MaxArgs == 2

ArgWords == {"120", "2.5", "crates"}

HeadWords == CommandTypes \cup {"help"}

ArgLists == UNION {[1..n -> ArgWords] : n \in 0..MaxArgs}

InitCommand ==
    /\ ServiceOff
    /\ MergeIdle
    /\ HarnessIdle

\* s.executeCommand(ctx, models.ParseCommand(text), sender) on a service
\* with or without dispatcher, whose row write fails or not
CommandCall ==
    \E head \in HeadWords, args \in ArgLists, dispatcherSet, writeFails \in BOOLEAN :
        LET cmd == ParseCommand(Text(TRUE, <<head>> \o args))
        IN  /\ op' = [kind |-> "command", user |-> "",
                      arg |-> [cmd |-> cmd, dispatcher |-> dispatcherSet,
                               writeFails |-> writeFails],
                      result |-> [handled |-> HandleCommand(cmd, writeFails),
                                  sent |-> executeCommand(cmd, dispatcherSet,
                                                          writeFails)],
                      before |-> NewSessionManager]
            /\ UNCHANGED <<svars, mvars, pvars>>

NextCommand == CommandCall

SpecCommand == InitCommand /\ [][NextCommand]_vars

\* C27: when HandleCommand fails with an error that is neither
\* ErrInvalidArguments nor ErrUnsupportedCommand, the reply sent still ends
\* with the syntax reminder of the command in commandReplies.
C27_StorageFailureReplyHasReminder ==
    (/\ op.kind = "command"
     /\ op.arg.dispatcher
     /\ op.result.handled.err \notin {"nil", ErrInvalidArguments,
                                      ErrUnsupportedCommand}) =>
        LET cr == commandReplies[op.arg.cmd.Type]
        IN  op.result.sent.body \in
                {cr.Message,
                 cr.Title \o "\n" \o cr.Message,
                 "Could not parse your " \o op.arg.cmd.Type \o " update.\n"
                    \o cr.Message,
                 "We hit a technical issue storing your update. Please retry shortly.\n"
                    \o cr.Message}

\* the row write of a valid eggs command failed and the reply is the
\* technical-issue text alone
C27_StorageFailureReplyWithoutReminder ==
    /\ op.kind = "command"
    /\ op.arg.dispatcher
    /\ op.arg.cmd.Type = "eggs"
    /\ op.result.handled.err = ErrStorage
    /\ Len(op.result.handled.calls) = 1
    /\ op.result.sent.body =
          "We hit a technical issue storing your update. Please retry shortly."

\* C28: HandleCommand returns ErrUnsupportedCommand for a type that is not
\* eggs, feed, mortality, sales or expenses and ErrInvalidArguments for
\* arguments that do not parse, with no save in either case; for a
\* recognized command with valid arguments it invokes exactly one save, of
\* the record kind of the command.
C28_OneSaveForValidCommand ==
    op.kind = "command" =>
        LET cmd == op.arg.cmd
            h == op.result.handled
            n == Len(cmd.Args)
            ints == {"120"}
            floats == {"120", "2.5"}
            valid ==
                CASE cmd.Type \in {"eggs", "mortality"} ->
                        n >= 1 /\ cmd.Args[1] \in ints
                  [] cmd.Type = "feed" -> n >= 1 /\ cmd.Args[1] \in floats
                  [] cmd.Type = "sales" ->
                        n >= 2 /\ cmd.Args[1] \in ints /\ cmd.Args[2] \in floats
                  [] cmd.Type = "expenses" -> n >= 2 /\ cmd.Args[1] \in floats
                  [] OTHER -> FALSE
        IN  IF cmd.Type \notin {"eggs", "feed", "mortality", "sales", "expenses"}
                THEN h.err = ErrUnsupportedCommand /\ h.calls = <<>>
            ELSE IF ~valid
                THEN h.err = ErrInvalidArguments /\ h.calls = <<>>
            ELSE /\ Len(h.calls) = 1
                 /\ h.calls[1].kind = cmd.Type
                 /\ h.err \in {"nil", ErrStorage}
                 /\ h.err = "nil" <=> ~op.arg.writeFails

\* a sales command with a whole quantity and a decimal price was saved once
C28_SalesCommandSaved ==
    /\ op.kind = "command"
    /\ op.arg.cmd = [Type |-> "sales", Args |-> <<"120", "2.5">>]
    /\ op.result.handled.err = "nil"
    /\ Len(op.result.handled.calls) = 1
    /\ op.result.handled.calls[1].kind = "sales"


\* C29: on every turn whose extractor call succeeds, the state written to
\* the session store is Merge(state0, state1), state0 being the session
\* read at the start of the turn and state1 the state the extractor
\* returned.
C29_StoredStateIsMerge ==
    [][\A p \in Procs :
        /\ (pc[p] = "ai" /\ pc'[p] = "idle" /\ last'.path = "followup") =>
              sessions'[userID[p]] =
                  Merge(currentState[p],
                        ProcessConversationOK(currentState[p], input[p],
                                              last'.answer, last'.body))
        /\ (pc[p] = "ai" /\ pc'[p] = "save") =>
              sessions'[userID[p]] =
                  Merge(currentState[p],
                        ProcessConversationOK(currentState[p], input[p],
                                              aiState'[p], reply'[p]))
      ]_vars

\* the stored session of a user lacks the notes that the session read at
\* the start of the turn held and that Merge would have kept
C29_NotesLostByInlineMerge ==
    \E p \in Procs :
        /\ pc[p] = "save"
        /\ currentState[p].Notes # ""
        /\ aiState[p].Notes = ""
        /\ sessions[userID[p]] = newState[p]
        /\ sessions[userID[p]].Notes = ""
        /\ Merge(currentState[p], newState[p]).Notes = currentState[p].Notes

\* C30: Merge(A, B) is A whenever B has the step and the history of A and
\* every other field null.
C30_NullMergeIsIdentity ==
    (/\ mstage = "merged"
     /\ incoming.Step = prev.Step
     /\ incoming.History = prev.History
     /\ \A f \in DataFields : IsNull(incoming, f)) =>
        merged = prev

\* a state holding a data field was merged with a state that carries its
\* step and history and nothing else
C30_NullMergeApplied ==
    /\ mstage = "merged"
    /\ incoming = [ZeroState EXCEPT !.Step = prev.Step,
                                    !.History = prev.History]
    /\ prev.History # <<>>
    /\ \E f \in DataFields : ~IsNull(prev, f)
    /\ merged = prev

\* C31: Merge takes step and history verbatim from the incoming state, also
\* when the incoming step is empty or the incoming history is empty or
\* shorter than the previous one; the previous step and history never
\* survive a merge.
C31_StepAndHistoryFromIncoming ==
    mstage = "merged" =>
        /\ merged.Step = incoming.Step
        /\ merged.History = incoming.History

\* a merge whose argument has no step and an empty history, over a receiver
\* that has both
C31_EmptyProgressMerged ==
    /\ mstage = "merged"
    /\ incoming.Step = ""
    /\ incoming.History = <<>>
    /\ prev.Step # ""
    /\ Len(prev.History) = 2
    /\ merged.Step = ""
    /\ merged.History = <<>>

\* C32: history is append-only within a session: after every successful
\* turn the stored history equals the history stored before the turn
\* followed by the user's utterance and then the extractor's reply (the
\* length grows by exactly 2, earlier entries unchanged); the state put
\* into the extraction prompt has no history, and stripping it does not
\* alter the stored history.
C32_HistoryAppendOnly ==
    [][\A p \in Procs :
        (pc[p] = "ai" /\ pc'[p] # "ai" /\ (pc'[p] = "save" \/ last'.path = "followup")) =>
            LET before == GetSession(sessions, userID[p]).History
                after == sessions'[userID[p]].History
                r == IF pc'[p] = "save" THEN reply'[p] ELSE last'.body
            IN  /\ PromptState(currentState[p]).History = <<>>
                /\ \A f \in DataFields :
                      PromptState(currentState[p])[f] = currentState[p][f]
                /\ sessions[userID[p]] # NoSession =>
                      sessions[userID[p]] = currentState[p]
                /\ Len(after) = Len(before) + 2
                /\ SubSeq(after, 1, Len(before)) = before
                /\ after[Len(before) + 1] = Message("user", input[p])
                /\ after[Len(before) + 2] = Message("assistant", r)]_vars

\* a second turn of a session has been stored: four entries, the first two
\* from the first turn
C32_SecondTurnStored ==
    /\ turns = 2
    /\ AllIdle
    /\ last.path = "followup"
    /\ sessions[last.userID] # NoSession
    /\ Len(sessions[last.userID].History) = 4

(***************************************************************************)
(* saveDailyReport on its own: one call on a completed state drawn from    *)
(* the values below, on a service with or without dispatcher, with any set *)
(* of failing save calls.  The service is switched off.                    *)
(***************************************************************************)
\* values of an int pointer: nil, zero and a positive count
BandValues == {Nil, <<0>>, <<2>>}

\* mortality_qty: nil, zero, a positive and a negative count
MortalityQtyValues == {Nil, <<0>>, <<3>>, <<-1>>}

\* mortality_band: no reason, the reason "0" and a reason
MortalityBandValues == {"", "0", "heat"}

ReportStates ==
    {[ZeroState EXCEPT !.Step = Step_COMPLETED,
                       !.EggsBand1 = b1, !.EggsBand2 = b2, !.EggsBand3 = b3,
                       !.MortalityQty = mq, !.MortalityBand = mb,
                       !.FeedReceived = fr, !.FeedQty = fq] :
        b1 \in BandValues, b2 \in BandValues, b3 \in BandValues,
        mq \in MortalityQtyValues, mb \in MortalityBandValues,
        fr \in {Nil, <<FALSE>>, <<TRUE>>}, fq \in {Nil, <<5>>}}

InitReport ==
    /\ ServiceOff
    /\ MergeIdle
    /\ HarnessIdle

\* s.saveDailyReport(ctx, state)
ReportCall ==
    /\ op = NoOp
    /\ \E state \in ReportStates, dispatcherSet \in BOOLEAN,
          fails \in SUBSET SaveKinds :
          op' = [kind |-> "report", user |-> "",
                 arg |-> [state |-> state, dispatcher |-> dispatcherSet,
                          fails |-> fails],
                 result |-> saveDailyReport(state, dispatcherSet, fails),
                 before |-> NewSessionManager]
    /\ UNCHANGED <<svars, mvars, pvars>>

NextReport == ReportCall

SpecReport == InitReport /\ [][NextReport]_vars

\* C33: a dispatch produces a record only for a populated field group: on a
\* service with a dispatcher the egg save is invoked if and only if at least
\* one egg band field is non-null, and its total is the sum of the three
\* band counts, a null band counting as 0; a completed state with no field
\* populated invokes no save and the dispatch still succeeds.
C33_RecordsOnlyForPopulatedGroups ==
    (op.kind = "report" /\ op.arg.dispatcher) =>
        LET state == op.arg.state
            calls == op.result.calls
            band(b) == IF b = Nil THEN 0 ELSE b[1]
        IN  /\ (CallsOfKind(calls, "eggs") > 0) <=>
                   (state.EggsBand1 # Nil \/ state.EggsBand2 # Nil
                    \/ state.EggsBand3 # Nil)
            /\ CallsOfKind(calls, "eggs") <= 1
            /\ \A i \in 1..Len(calls) :
                  calls[i].kind = "eggs" =>
                      calls[i].Quantity = band(state.EggsBand1)
                                          + band(state.EggsBand2)
                                          + band(state.EggsBand3)
            /\ CallsOfKind(calls, "mortality") > 0 => state.MortalityQty # Nil
            /\ CallsOfKind(calls, "feed") > 0 => state.FeedReceived # Nil
            /\ (\A f \in DataFields : IsNull(state, f)) =>
                  (calls = <<>> /\ op.result.err = "nil")

\* an egg record was saved for a state with one band null
C33_PartialBandsSaved ==
    /\ op.kind = "report"
    /\ op.arg.dispatcher
    /\ op.arg.state.EggsBand1 = <<2>>
    /\ op.arg.state.EggsBand2 = Nil
    /\ op.arg.state.EggsBand3 = <<2>>
    /\ op.result.err = "nil"
    /\ \E i \in 1..Len(op.result.calls) :
          op.result.calls[i].kind = "eggs" /\ op.result.calls[i].Quantity = 4

\* C34: when the completed state's mortality count is 0 and no reason is
\* given (reason empty or "0"), the saved mortality record carries the fixed
\* marker "RAS" as its reason; for a non-zero count or a given reason the
\* reason is saved unchanged; a null mortality count produces no mortality
\* record.
C34_ZeroMortalityWithoutReasonIsRAS ==
    op.kind = "report" =>
        LET state == op.arg.state
            calls == op.result.calls
        IN  /\ \A i \in 1..Len(calls) :
                  calls[i].kind = "mortality" =>
                      /\ state.MortalityQty # Nil
                      /\ calls[i].Quantity = state.MortalityQty[1]
                      /\ IF state.MortalityQty = <<0>>
                            /\ state.MortalityBand \in {"", "0"}
                            THEN calls[i].Reason = "RAS"
                         ELSE calls[i].Reason = state.MortalityBand
            /\ state.MortalityQty = Nil => CallsOfKind(calls, "mortality") = 0

\* a mortality record of count 0 without reason was saved with the marker
C34_MarkerSaved ==
    /\ op.kind = "report"
    /\ op.arg.state.MortalityQty = <<0>>
    /\ op.arg.state.MortalityBand = ""
    /\ op.result.err = "nil"
    /\ \E i \in 1..Len(op.result.calls) :
          op.result.calls[i].kind = "mortality" /\ op.result.calls[i].Reason = "RAS"

\* C39: the feed save is invoked if and only if the completed state's
\* feed_received flag is non-null and true (on a service with a dispatcher
\* whose egg and mortality saves did not fail); a state with feed_received
\* false or null never produces a feed record even when feed_qty is set,
\* and a true flag with null feed_qty produces a feed record with
\* quantity 0.
C39_FeedSavedIffReceived ==
    op.kind = "report" =>
        LET state == op.arg.state
            calls == op.result.calls
        IN  /\ (op.arg.dispatcher
                /\ op.result.err \in {"nil", SaveErr("feed")}) =>
                   ((CallsOfKind(calls, "feed") = 1) <=> (state.FeedReceived = <<TRUE>>))
            /\ state.FeedReceived # <<TRUE>> => CallsOfKind(calls, "feed") = 0
            /\ CallsOfKind(calls, "feed") <= 1
            /\ \A i \in 1..Len(calls) :
                  calls[i].kind = "feed" =>
                      calls[i].FeedKg = (IF state.FeedQty = Nil THEN 0
                                         ELSE state.FeedQty[1])

\* a feed record of quantity 0 was saved for a true flag without quantity
C39_FeedSavedWithoutQuantity ==
    /\ op.kind = "report"
    /\ op.arg.state.FeedReceived = <<TRUE>>
    /\ op.arg.state.FeedQty = Nil
    /\ \E i \in 1..Len(op.result.calls) :
          op.result.calls[i].kind = "feed" /\ op.result.calls[i].FeedKg = 0

\* C35: in every turn the merged state is written to the session store at
\* most once and before any save is invoked, so at the moment of each save
\* call the stored session of that user already equals the merged state.
C35_StoredBeforeSaves ==
    [][/\ \A u \in Users :
             (sessions'[u] # sessions[u] /\ sessions'[u] # NoSession) =>
                 \E p \in Procs :
                     /\ pc[p] = "ai"
                     /\ userID[p] = u
                     /\ pc'[p] = "save" => sessions'[u] = newState'[p]
       /\ \A p \in Procs :
             pc[p] = "save" =>
                 /\ sessions[userID[p]] = newState[p]
                 /\ sessions'[userID[p]] = sessions[userID[p]]]_vars

\* the saves of a dispatch were made on a merged state that carries a field
\* over from the session, with that state in the store
C35_SavedWithMergedStateStored ==
    \E p \in Procs :
        /\ pc[p] = "clear"
        /\ saveCalls[p] # <<>>
        /\ aiState[p].EggsBand1 = Nil
        /\ newState[p].EggsBand1 # Nil
        /\ sessions[userID[p]] = newState[p]

\* C36: a successful turn whose merged step is any value other than the
\* exact string "COMPLETED" (COLLECTING, CONFIRMING, empty, or anything else
\* the extractor returns) invokes no save and does not clear the session;
\* save and clear happen only for the exact value COMPLETED.
C36_OnlyCompletedSavesAndClears ==
    [][\A p \in Procs :
        /\ (pc[p] = "ai" /\ pc'[p] # "ai" /\ sessions' # sessions
            /\ sessions'[userID[p]].Step # "COMPLETED") =>
               /\ pc'[p] = "idle"
               /\ last'.path = "followup"
               /\ last'.calls = <<>>
               /\ sessions'[userID[p]] # NoSession
               /\ savedSinceClear' = savedSinceClear
        /\ pc'[p] = "save" => newState'[p].Step = "COMPLETED"
        /\ (pc[p] = "save" /\ pc'[p] # "save") => newState[p].Step = "COMPLETED"
        /\ (pc[p] = "clear" /\ pc'[p] # "clear") => newState[p].Step = "COMPLETED"
        /\ (pc[p] # "idle" /\ sessions'[userID[p]] = NoSession
            /\ sessions[userID[p]] # NoSession) => pc[p] = "clear"]_vars

\* a turn answered with the step "completed" ended with the follow-up, the
\* session stored and no save
C36_LowerCaseStepNotDispatched ==
    /\ AllIdle
    /\ last.path = "followup"
    /\ last.answer.Step = "completed"
    /\ last.calls = <<>>
    /\ sessions[last.userID] # NoSession
    /\ sessions[last.userID].Step = "completed"

\* C37: a failure to deliver the reply does not roll back the turn: when
\* the send of the confirmation fails after a successful dispatch the
\* session stays cleared and the records stay saved, and when the send of a
\* follow-up question fails the merged session stays stored; the send error
\* is what the turn returns.
C37_SendFailureKeepsTurn ==
    [][\A p \in Procs :
        /\ (pc[p] = "clear" /\ pc'[p] = "idle") =>
              /\ last'.path = "saved"
              /\ last'.sends = 1
              /\ last'.err \in {"nil", "send failed"}
              /\ sessions'[userID[p]] = NoSession
              /\ last'.calls = saveCalls[p]
              /\ last'.dispatchErr = "nil"
        /\ (pc[p] = "ai" /\ pc'[p] = "idle" /\ last'.path = "followup") =>
              /\ last'.sends = 1
              /\ last'.err \in {"nil", "send failed"}
              /\ sessions'[userID[p]] =
                    InlineMerge(currentState[p],
                                ProcessConversationOK(currentState[p], input[p],
                                                      last'.answer, last'.body))]_vars

\* the confirmation of a saved report could not be sent: the turn returned
\* the send error, the session is gone and the saves were made
C37_ConfirmationNotDelivered ==
    /\ AllIdle
    /\ last.path = "saved"
    /\ last.err = "send failed"
    /\ last.calls # <<>>
    /\ sessions[last.userID] = NoSession

(***************************************************************************)
(* HandleWebhook (service.go 274-300) on its own.  A payload is a sequence *)
(* of entries, an entry a sequence of changes, a change a sequence of      *)
(* messages; a message has an ID, a sender, and handleInboundMessage       *)
(* either fails on it or not.  op.result holds the position in the         *)
(* messages of the payload, the messages handleInboundMessage is running   *)
(* on, the messages handled so far, firstErr and the error returned        *)
(* ("none" before the return).                                             *)
(***************************************************************************)
\* the most messages a payload holds
MaxMessages == 3

InboundMessage(id, from, fails) == [ID |-> id, From |-> from, fails |-> fails]

RECURSIVE Concat(_)
\* the elements of the sequences of a sequence, in order
Concat(seqs) ==
    IF seqs = <<>> THEN <<>> ELSE Head(seqs) \o Concat(Tail(seqs))

\* the messages in the order the three nested loops reach them
MessagesOf(payload) ==
    Concat([e \in 1..Len(payload) |-> Concat(payload[e])])

\* the shapes of a payload: message slots spread over entries and changes
WebhookShapes ==
    {<<>>,
     << <<>> >>,
     << << <<>> >> >>,
     << << <<1>> >> >>,
     << << <<1, 2>> >> >>,
     << << <<1>>, <<2>> >> >>,
     << << <<1>> >>, << <<2>> >> >>,
     << << <<1>>, <<>>, <<2>> >>, << <<3>> >> >>,
     << << <<1, 2, 3>> >> >>}

\* the payloads: every slot of a shape filled with a sender and an outcome
WebhookPayloads ==
    {[e \in 1..Len(shape) |->
        [c \in 1..Len(shape[e]) |->
            [m \in 1..Len(shape[e][c]) |->
                InboundMessage(shape[e][c][m], from[shape[e][c][m]],
                               fails[shape[e][c][m]])]]] :
        shape \in WebhookShapes,
        from \in [1..MaxMessages -> Users],
        fails \in [1..MaxMessages -> BOOLEAN]}

\* the error handleInboundMessage returns for a message
ErrOf(msg) == IF msg.fails THEN "error " \o ToString(msg.ID) ELSE "nil"

InitWebhook ==
    /\ ServiceOff
    /\ MergeIdle
    /\ HarnessIdle

\* lines 275-280: the call; a payload without entries returns nil at once
WebhookCall ==
    /\ op = NoOp
    /\ \E payload \in WebhookPayloads :
          op' = [kind |-> "webhook", user |-> "", arg |-> payload,
                 result |-> [pos |-> 1, inFlight |-> {}, handled |-> <<>>,
                             firstErr |-> "nil",
                             returned |-> IF Len(payload) = 0 THEN "nil"
                                          ELSE "none"],
                 before |-> NewSessionManager]
    /\ UNCHANGED <<svars, mvars, pvars>>

\* line 289: handleInboundMessage is called on the next message
HandleMessageBegin ==
    /\ op.kind = "webhook"
    /\ op.result.returned = "none"
    /\ op.result.inFlight = {}
    /\ op.result.pos <= Len(MessagesOf(op.arg))
    /\ op' = [op EXCEPT !.result.inFlight = {MessagesOf(op.arg)[op.result.pos]}]
    /\ UNCHANGED <<svars, mvars, pvars>>

\* the loop body, had the loop ended at the first failed message
HandleMessageEnd_StopsAtError ==
    /\ op.kind = "webhook"
    /\ op.result.inFlight # {}
    /\ LET msg == MessagesOf(op.arg)[op.result.pos]
           err == IF msg.fails THEN "error " \o ToString(msg.ID) ELSE "nil"
       IN  op' = [op EXCEPT
                     !.result.inFlight = {},
                     !.result.handled = Append(@, msg),
                     !.result.pos = IF err # "nil" THEN Len(MessagesOf(op.arg)) + 1
                                    ELSE @ + 1,
                     !.result.firstErr = IF err # "nil" /\ @ = "nil" THEN err ELSE @]
    /\ UNCHANGED <<svars, mvars, pvars>>

\* lines 289-294: handleInboundMessage returned; its error is kept when it
\* is the first one, and the loop goes on
HandleMessageEnd ==
    /\ op.kind = "webhook"
    /\ op.result.inFlight # {}
    /\ LET msg == MessagesOf(op.arg)[op.result.pos]
           err == ErrOf(msg)
       IN  op' = [op EXCEPT
                     !.result.inFlight = {},
                     !.result.handled = Append(@, msg),
                     !.result.pos = @ + 1,
                     !.result.firstErr = IF err # "nil" /\ @ = "nil" THEN err ELSE @]
    /\ UNCHANGED <<svars, mvars, pvars>>

\* line 299: return firstErr
WebhookReturn ==
    /\ op.kind = "webhook"
    /\ op.result.returned = "none"
    /\ op.result.inFlight = {}
    /\ op.result.pos > Len(MessagesOf(op.arg))
    /\ op' = [op EXCEPT !.result.returned = op.result.firstErr]
    /\ UNCHANGED <<svars, mvars, pvars>>

NextWebhook ==
    \/ WebhookCall
    \/ HandleMessageBegin
    \/ HandleMessageEnd
    \/ WebhookReturn

SpecWebhook == InitWebhook /\ [][NextWebhook]_vars

\* C38: HandleWebhook handles every message of the payload sequentially in
\* payload order (so two messages of the same user inside one payload are
\* never in flight together), keeps handling the remaining messages after
\* one fails, and returns the error of the first failed message, or nil
\* when none failed or the payload has no entries.
C38_SequentialAndFirstError ==
    op.kind = "webhook" =>
        LET msgs == MessagesOf(op.arg)
            res == op.result
            failed == {i \in 1..Len(msgs) : msgs[i].fails}
        IN  /\ Cardinality(res.inFlight) <= 1
            /\ Len(res.handled) <= Len(msgs)
            /\ res.handled = SubSeq(msgs, 1, Len(res.handled))
            /\ \A m \in res.inFlight : m = msgs[Len(res.handled) + 1]
            /\ res.returned # "none" =>
                  /\ res.inFlight = {}
                  /\ res.handled = msgs
                  /\ res.returned =
                        IF failed = {} THEN "nil"
                        ELSE "error " \o
                             ToString(msgs[CHOOSE i \in failed :
                                              \A j \in failed : i <= j].ID)
            /\ Len(op.arg) = 0 => res.returned = "nil"

\* a payload of three messages of one user, the second failing and the
\* third too: all three were handled and the second's error returned
C38_HandledPastFailure ==
    /\ op.kind = "webhook"
    /\ Len(MessagesOf(op.arg)) = 3
    /\ \A i \in 1..3 : MessagesOf(op.arg)[i].From = MessagesOf(op.arg)[1].From
    /\ ~MessagesOf(op.arg)[1].fails
    /\ MessagesOf(op.arg)[2].fails
    /\ MessagesOf(op.arg)[3].fails
    /\ Len(op.result.handled) = 3
    /\ op.result.returned = "error 2"

\* C40: sanitizeJSON is idempotent, and it returns its input unchanged
\* whenever the input has no reply key, no colon after the key, no quote
\* after that colon, no closing brace, or no quote before the last closing
\* brace that lies after the opening quote of the value.
C40_SanitizeIdempotent ==
    pstage \in {"sanitized", "parsed"} =>
        LET t == responseText
            At(c, from) == {i \in from..Len(t) : t[i] = c}
            First(S) == CHOOSE i \in S : \A j \in S : i <= j
            Last(S) == CHOOSE i \in S : \A j \in S : i >= j
            keys == {i \in 1..(Len(t) - 2) :
                        t[i] = Quote /\ t[i + 1] = "reply" /\ t[i + 2] = Quote}
            noKey == keys = {}
            noColon == ~noKey /\ At(":", First(keys)) = {}
            colon == First(At(":", First(keys)))
            noQuote == ~noKey /\ ~noColon /\ At(Quote, colon) = {}
            open == First(At(Quote, colon))
            noBrace == At("}", 1) = {}
            noClosing == /\ ~noKey /\ ~noColon /\ ~noQuote /\ ~noBrace
                         /\ {i \in At(Quote, open + 1) : i < Last(At("}", 1))} = {}
        IN  /\ sanitizeJSON(sanitized) = sanitized
            /\ (noKey \/ noColon \/ noQuote \/ noBrace \/ noClosing) =>
                  sanitized = responseText

\* a payload was repaired, and repairing the result again changes nothing
C40_RepairedOnce ==
    /\ pstage = "sanitized"
    /\ sanitized # responseText
    /\ \E i \in 1..Len(sanitized) : sanitized[i] = Backslash
    /\ \E i \in 1..Len(responseText) : responseText[i] = Backslash
    /\ sanitizeJSON(sanitized) = sanitized

=============================================================================
